---- MODULE Spec2Model ----
(***************************************************************************)
(* A model of oathkeeper (src/main.go): the LRU render cache, the LaTeX    *)
(* to Unicode renderer, the completion engine and the block editor's key   *)
(* handlers.                                                               *)
(*                                                                         *)
(* Strings are sequences of one-character strings.  A non-ASCII rune is    *)
(* one element named by its code point ("U+222B" is the integral sign).    *)
(***************************************************************************)
EXTENDS Integers, Sequences, FiniteSets, TLC

VARIABLES
    mode,          \* model.mode
    blocks,        \* model.document.blocks
    backing,       \* the array under model.document.blocks, to its capacity
    currentBlock,  \* model.document.currentBlock
    editor,        \* model.document.editor: [value, focus]
    filepath,      \* model.document.filepath ("" is <<>>)
    modified,      \* model.document.modified
    lsp,           \* model.document.lsp
    menu,          \* model.menu: [selected]
    export,        \* model.export: [selected, focus]
    errorMsg,      \* model.browser.errorMsg
    disk,          \* the files of the browser's directory: path -> file
    cmds,          \* the commands Update returned that have not run yet
    timer,         \* model.input, notes, duration, remaining, paused, ticker,
                   \* and the tickers made, their channels and the waits on them
    rcache,        \* model.document.renderer.cache
    now,           \* the wall clock, in seconds
    recency,       \* history: the cache keys used, most recently used first
    renders,       \* history of Render: cache key -> what its first render returned
    lastRender,    \* history of Render: what the last call was and returned
    nFresh,        \* history: how many previews of other contents ran
    nOps,          \* history: how many keys the handlers were given
    lastOp         \* history: the handler that ran last

docVars == <<mode, blocks, backing, currentBlock, editor, filepath,
             modified, lsp, menu, export, errorMsg, disk, cmds, timer>>
renderVars == <<rcache, now, renders, lastRender, nFresh>>
vars == <<docVars, renderVars, recency, nOps, lastOp>>

-----------------------------------------------------------------------------
(* Bounds of the model.                                                    *)

MaxCapacity == 2    \* capacities 1..MaxCapacity given to newLRUCache
NumKeys == 3        \* distinct keys given to Get and Put
MaxNow == 60        \* the clock stops advancing at MaxNow seconds
MaxPreviews == 2     \* previews of never-seen contents rendered
MaxOps == 6         \* keys handled in a run of Spec
MaxLag == 1         \* keys handled while a command is in flight
MaxLine == 3        \* characters of a text committed in SpecSyntax
MaxWords == 2       \* words of a content completed in SpecComplete
MaxCalls == 2       \* calls of getCompletions in a run of SpecComplete
MaxBlocks == 2      \* blocks of a document named in SpecFilename

-----------------------------------------------------------------------------
(* Go's strings package, on sequences of characters.                       *)

Min(a, b) == IF a < b THEN a ELSE b

HasPrefix(s, p) == Len(p) <= Len(s) /\ SubSeq(s, 1, Len(p)) = p

\* strings.Index, 1-based; 0 when sub does not occur.
Index(s, sub) ==
    LET hits == {i \in 1..(Len(s) - Len(sub) + 1) :
                    SubSeq(s, i, i + Len(sub) - 1) = sub}
    IN  IF hits = {} THEN 0 ELSE CHOOSE i \in hits : \A j \in hits : i <= j

Contains(s, sub) == Index(s, sub) # 0

\* strings.Replace(s, old, new, 1)
ReplaceFirst(s, old, new) ==
    LET i == Index(s, old)
    IN  IF i = 0 THEN s
        ELSE SubSeq(s, 1, i - 1) \o new \o SubSeq(s, i + Len(old), Len(s))

\* strings.ReplaceAll for a non-empty old: leftmost, non-overlapping matches.
RECURSIVE ReplaceAll(_, _, _)
ReplaceAll(s, old, new) ==
    LET i == Index(s, old)
    IN  IF i = 0 THEN s
        ELSE SubSeq(s, 1, i - 1) \o new
             \o ReplaceAll(SubSeq(s, i + Len(old), Len(s)), old, new)

\* strings.Count(s, c) for a one-character c.
Count(s, c) == Cardinality({i \in 1..Len(s) : s[i] = c})

IsSpace(c) == c \in {" ", "\n", "\t"}

\* strings.Fields: the maximal runs of non-space characters.
RECURSIVE Fields(_)
Fields(s) ==
    IF s = <<>> THEN <<>>
    ELSE IF IsSpace(s[1]) THEN Fields(Tail(s))
    ELSE LET stops == {i \in 1..Len(s) : IsSpace(s[i])}
             end == IF stops = {} THEN Len(s) + 1
                    ELSE CHOOSE i \in stops : \A j \in stops : i <= j
         IN  <<SubSeq(s, 1, end - 1)>> \o Fields(SubSeq(s, end, Len(s)))

\* strings.Split(s, "\n")
RECURSIVE SplitLines(_)
SplitLines(s) ==
    LET i == Index(s, <<"\n">>)
    IN  IF i = 0 THEN <<s>>
        ELSE <<SubSeq(s, 1, i - 1)>> \o SplitLines(SubSeq(s, i + 1, Len(s)))

Digit(d) == <<"0", "1", "2", "3", "4", "5", "6", "7", "8", "9">>[d + 1]

\* fmt.Sprintf("%d", n) for n >= 0
RECURSIVE Sprintf_d(_)
Sprintf_d(n) ==
    IF n < 10 THEN <<Digit(n)>> ELSE Sprintf_d(n \div 10) \o <<Digit(n % 10)>>

-----------------------------------------------------------------------------
(* LRUCache: the key index (cache), the recency list (order, front first)  *)
(* and the list elements (items: element -> cacheItem).  An element is a   *)
(* pointer; PushFront allocates one that is not in use.                    *)

newLRUCache(capacity) ==
    [capacity |-> capacity, cache |-> <<>>, order |-> <<>>, items |-> <<>>]

\* list.MoveToFront: nothing happens to an element that is not in the list.
MoveToFront(order, e) ==
    IF \E i \in 1..Len(order) : order[i] = e
    THEN <<e>> \o SelectSeq(order, LAMBDA x : x # e)
    ELSE order

\* Get's second result.
LRUCacheHit(c, key) == key \in DOMAIN c.cache

\* Get's first result on a hit.
LRUCacheValue(c, key) == c.items[c.cache[key]].value

\* The cache after Get(key).
LRUCacheGetNoPromote(c, key) == c

LRUCacheGet(c, key) ==
    IF key \in DOMAIN c.cache
    THEN [c EXCEPT !.order = MoveToFront(c.order, c.cache[key])]
    ELSE c

Restrict(f, S) == [x \in S |-> f[x]]

\* An eviction that unlinks the oldest element and keeps its index entry.
EvictKeepingIndex(c, full) ==
    IF full /\ c.order # <<>>
    THEN [c EXCEPT !.order = SubSeq(c.order, 1, Len(c.order) - 1)]
    ELSE c

\* The cache after the eviction step of Put, with the comparison given.
Evict(c, full) ==
    IF full /\ c.order # <<>>
    THEN LET oldest == c.order[Len(c.order)]
         IN  [c EXCEPT
                !.order = SubSeq(c.order, 1, Len(c.order) - 1),
                !.cache = Restrict(c.cache,
                                   DOMAIN c.cache \ {c.items[oldest].key})]
    ELSE c

\* The cache after PushFront of a new item and its entry in the index.
Insert(c, key, value) ==
    LET elem == CHOOSE e \in 1..(Len(c.order) + 1) :
                    \A i \in 1..Len(c.order) : c.order[i] # e
        live == {c.order[i] : i \in 1..Len(c.order)}
    IN  [c EXCEPT
           !.order = <<elem>> \o c.order,
           !.items = [e \in live \cup {elem} |->
                        IF e = elem THEN [key |-> key, value |-> value]
                        ELSE c.items[e]],
           !.cache = [k \in DOMAIN c.cache \cup {key} |->
                        IF k = key THEN elem ELSE c.cache[k]]]

LRUCachePutOffByOne(c, key, value) ==
    IF key \in DOMAIN c.cache
    THEN [c EXCEPT !.order = MoveToFront(c.order, c.cache[key]),
                   !.items[c.cache[key]].value = value]
    ELSE Insert(Evict(c, Len(c.order) > c.capacity), key, value)

\* The cache after Put(key, value).
LRUCachePut(c, key, value) ==
    IF key \in DOMAIN c.cache
    THEN [c EXCEPT !.order = MoveToFront(c.order, c.cache[key]),
                   !.items[c.cache[key]].value = value]
    ELSE Insert(Evict(c, Len(c.order) >= c.capacity), key, value)

\* The keys of the recency list, front first.
OrderKeys(c) == [i \in 1..Len(c.order) |-> c.items[c.order[i]].key]

-----------------------------------------------------------------------------
(* renderModel: the macro table, the script tables and renderLaTeX.        *)

RenderCacheCapacity == 50
SecondsPerMinute == 60

\* newRenderModel's mathSymbols, as written; a Go map, so it has no order.
mathSymbols ==
  <<
    <<<<"\\", "a", "l", "p", "h", "a">>, "U+03B1">>,
    <<<<"\\", "b", "e", "t", "a">>, "U+03B2">>,
    <<<<"\\", "g", "a", "m", "m", "a">>, "U+03B3">>,
    <<<<"\\", "d", "e", "l", "t", "a">>, "U+03B4">>,
    <<<<"\\", "e", "p", "s", "i", "l", "o", "n">>, "U+03B5">>,
    <<<<"\\", "t", "h", "e", "t", "a">>, "U+03B8">>,
    <<<<"\\", "l", "a", "m", "b", "d", "a">>, "U+03BB">>,
    <<<<"\\", "m", "u">>, "U+03BC">>,
    <<<<"\\", "p", "i">>, "U+03C0">>,
    <<<<"\\", "s", "i", "g", "m", "a">>, "U+03C3">>,
    <<<<"\\", "p", "h", "i">>, "U+03C6">>,
    <<<<"\\", "o", "m", "e", "g", "a">>, "U+03C9">>,
    <<<<"\\", "i", "n", "t">>, "U+222B">>,
    <<<<"\\", "s", "u", "m">>, "U+2211">>,
    <<<<"\\", "p", "r", "o", "d">>, "U+220F">>,
    <<<<"\\", "s", "q", "r", "t">>, "U+221A">>,
    <<<<"\\", "i", "n", "f", "t", "y">>, "U+221E">>,
    <<<<"\\", "p", "a", "r", "t", "i", "a", "l">>, "U+2202">>,
    <<<<"\\", "n", "a", "b", "l", "a">>, "U+2207">>,
    <<<<"\\", "p", "m">>, "U+00B1">>,
    <<<<"\\", "t", "i", "m", "e", "s">>, "U+00D7">>,
    <<<<"\\", "d", "i", "v">>, "U+00F7">>,
    <<<<"\\", "l", "e">>, "U+2264">>,
    <<<<"\\", "g", "e">>, "U+2265">>,
    <<<<"\\", "n", "e">>, "U+2260">>,
    <<<<"\\", "a", "p", "p", "r", "o", "x">>, "U+2248">>,
    <<<<"\\", "s", "u", "b", "s", "e", "t">>, "U+2282">>,
    <<<<"\\", "s", "u", "p", "s", "e", "t">>, "U+2283">>,
    <<<<"\\", "i", "n">>, "U+2208">>,
    <<<<"\\", "n", "o", "t", "i", "n">>, "U+2209">>,
    <<<<"\\", "c", "u", "p">>, "U+222A">>,
    <<<<"\\", "c", "a", "p">>, "U+2229">>,
    <<<<"\\", "f", "o", "r", "a", "l", "l">>, "U+2200">>,
    <<<<"\\", "e", "x", "i", "s", "t", "s">>, "U+2203">>
  >>

subscripts ==
  <<<<<<"_", "0">>, "U+2080">>,
    <<<<"_", "1">>, "U+2081">>,
    <<<<"_", "2">>, "U+2082">>,
    <<<<"_", "3">>, "U+2083">>,
    <<<<"_", "4">>, "U+2084">>,
    <<<<"_", "5">>, "U+2085">>,
    <<<<"_", "6">>, "U+2086">>,
    <<<<"_", "7">>, "U+2087">>,
    <<<<"_", "8">>, "U+2088">>,
    <<<<"_", "9">>, "U+2089">>,
    <<<<"_", "a">>, "U+2090">>,
    <<<<"_", "e">>, "U+2091">>,
    <<<<"_", "i">>, "U+1D62">>,
    <<<<"_", "o">>, "U+2092">>,
    <<<<"_", "u">>, "U+1D64">>,
    <<<<"_", "x">>, "U+2093">>,
    <<<<"_", "y">>, "U+1D67">>>>

superscripts ==
  <<<<<<"^", "0">>, "U+2070">>,
    <<<<"^", "1">>, "U+00B9">>,
    <<<<"^", "2">>, "U+00B2">>,
    <<<<"^", "3">>, "U+00B3">>,
    <<<<"^", "4">>, "U+2074">>,
    <<<<"^", "5">>, "U+2075">>,
    <<<<"^", "6">>, "U+2076">>,
    <<<<"^", "7">>, "U+2077">>,
    <<<<"^", "8">>, "U+2078">>,
    <<<<"^", "9">>, "U+2079">>,
    <<<<"^", "n">>, "U+207F">>>>

\* The rows of the macro table whose name is a prefix of, or has as a prefix,
\* another row's name.  Every name is a backslash and letters and every
\* glyph is neither, so two rows outside this relation replace disjoint
\* text and their order cannot change the result.
Overlapping ==
    {i \in 1..Len(mathSymbols) :
        \E j \in 1..Len(mathSymbols) :
            /\ j # i
            /\ \/ HasPrefix(mathSymbols[i][1], mathSymbols[j][1])
               \/ HasPrefix(mathSymbols[j][1], mathSymbols[i][1])}

\* The orders in which "range r.mathSymbols" may visit the table: Go leaves
\* the order of a map iteration unspecified.  Every order of the overlapping
\* rows, followed by the other rows.
MapOrders ==
    LET n == Cardinality(Overlapping)
        first == {p \in [1..n -> Overlapping] :
                     \A i, j \in 1..n : i # j => p[i] # p[j]}
        rest == SelectSeq([i \in 1..Len(mathSymbols) |-> i],
                          LAMBDA i : i \notin Overlapping)
    IN  {p \o rest : p \in first}

\* The orders that can tell for a content: every name begins with a
\* backslash, so a content without one is left as it is by every row, in
\* any order.
OrdersFor(content) ==
    IF Contains(content, <<"\\">>) THEN MapOrders
    ELSE {[i \in 1..Len(mathSymbols) |-> i]}

\* A loop of strings.ReplaceAll over the rows of table, in the given order.
RECURSIVE ReplaceEach(_, _, _)
ReplaceEach(s, table, order) ==
    IF s = <<>> \/ order = <<>> THEN s
    ELSE ReplaceEach(ReplaceAll(s, table[Head(order)][1],
                                <<table[Head(order)][2]>>),
                     table, Tail(order))

SourceOrder(table) == [i \in 1..Len(table) |-> i]

\* The macro loop of renderLaTeX, visiting the table in the given order.
substitute(content, order) == ReplaceEach(content, mathSymbols, order)

\* Both tables hold two-character keys starting with "_" or "^" and glyphs
\* that are neither, so the order of these two loops cannot matter.
handleScripts(content) ==
    ReplaceEach(ReplaceEach(content, subscripts, SourceOrder(subscripts)),
                superscripts, SourceOrder(superscripts))

\* The brace scanner of handleFormatting from character i on.
RECURSIVE scanBraces(_, _, _)
scanBraces(result, i, braceCount) ==
    IF i > Len(result) THEN <<>>
    ELSE IF result[i] = "{" /\ i > 1
         THEN <<result[i]>> \o scanBraces(result, i + 1, braceCount + 1)
    ELSE IF result[i] = "}" /\ braceCount > 0
         THEN IF braceCount - 1 = 0
              THEN (IF i > 1 /\ result[i - 1] = "*" THEN <<"*", "*">>
                    ELSE <<"*">>)
                   \o scanBraces(result, i + 1, 0)
              ELSE <<result[i]>> \o scanBraces(result, i + 1, braceCount - 1)
    ELSE <<result[i]>> \o scanBraces(result, i + 1, braceCount)

handleFormatting(content) ==
    LET r1 == ReplaceAll(content, <<"\\", "t", "e", "x", "t", "b", "f", "{">>,
                         <<"*", "*">>)
        r2 == ReplaceAll(r1, <<"\\", "t", "e", "x", "t", "i", "t", "{">>,
                         <<"*">>)
        r3 == ReplaceAll(r2, <<"\\", "e", "m", "p", "h", "{">>, <<"*">>)
    IN  scanBraces(r3, 1, 0)

Diagnostic(line, column, message) ==
    [Line |-> line, Column |-> column, Message |-> message,
     Severity |-> "error"]

\* The brace loop of validateSyntax over one line, from character i on.
\* Column i here is byte offset i - 1 there: raw content is ASCII.
RECURSIVE braceDiagnostics(_, _, _, _)
braceDiagnostics(line, lineNum, i, braceCount) ==
    IF i > Len(line)
    THEN IF braceCount > 0
         THEN <<Diagnostic(lineNum, Len(line), "Unmatched opening brace")>>
         ELSE <<>>
    ELSE IF line[i] = "{"
         THEN braceDiagnostics(line, lineNum, i + 1, braceCount + 1)
    ELSE IF line[i] = "}"
         THEN (IF braceCount - 1 < 0
               THEN <<Diagnostic(lineNum, i, "Unmatched closing brace")>>
               ELSE <<>>)
              \o braceDiagnostics(line, lineNum, i + 1, braceCount - 1)
    ELSE braceDiagnostics(line, lineNum, i + 1, braceCount)

\* strings.LastIndex(line, "$") + 1
LastDollar(line) ==
    LET hits == {i \in 1..Len(line) : line[i] = "$"}
    IN  IF hits = {} THEN 0 ELSE CHOOSE i \in hits : \A j \in hits : j <= i

lineDiagnostics(line, lineNum) ==
    braceDiagnostics(line, lineNum, 1, 0)
    \o (IF Count(line, "$") % 2 # 0
        THEN <<Diagnostic(lineNum, LastDollar(line),
                          "Unmatched math delimiter")>>
        ELSE <<>>)

RECURSIVE diagnosticsFrom(_, _)
diagnosticsFrom(lines, lineNum) ==
    IF lineNum > Len(lines) THEN <<>>
    ELSE lineDiagnostics(lines[lineNum], lineNum)
         \o diagnosticsFrom(lines, lineNum + 1)

validateSyntax(content) == diagnosticsFrom(SplitLines(content), 1)

\* time.Now().Truncate(time.Minute).Unix()
Truncate(t) == t - (t % SecondsPerMinute)

cacheKey(content, t) == content \o Sprintf_d(Truncate(t))

\* A renderer that validates the text it has rendered.
renderFreshValidatingRendered(content, order, t) ==
    LET rendered == handleFormatting(handleScripts(substitute(content, order)))
    IN  [Unicode |-> rendered, Errors |-> validateSyntax(rendered),
         LastModified |-> t]

\* renderLaTeX on a cache miss, the macro loop running in the given order.
renderFresh(content, order, t) ==
    [Unicode |-> handleFormatting(handleScripts(substitute(content, order))),
     Errors |-> validateSyntax(content),
     LastModified |-> t]

\* renderLaTeX(content) at time t: what it returns and the cache it leaves.
renderLaTeX(c, content, order, t) ==
    LET key == cacheKey(content, t)
    IN  IF LRUCacheHit(c, key)
        THEN [result |-> LRUCacheValue(c, key),
              cache |-> LRUCacheGet(c, key)]
        ELSE [result |-> renderFresh(content, order, t),
              cache |-> LRUCachePut(LRUCacheGet(c, key), key,
                                    renderFresh(content, order, t))]

-----------------------------------------------------------------------------
(* lspModel: the completion registry and getCompletions.                   *)

\* newLSPModel's symbols, as written; a Go map, so it has no order.
symbols ==
  <<
    [Label |-> <<"\\", "a", "l", "p", "h", "a">>,
     InsertText |-> <<"\\", "a", "l", "p", "h", "a">>],
    [Label |-> <<"\\", "b", "e", "t", "a">>,
     InsertText |-> <<"\\", "b", "e", "t", "a">>],
    [Label |-> <<"\\", "f", "r", "a", "c">>,
     InsertText |-> <<"\\", "f", "r", "a", "c", "{", "n", "u", "m", "e", "r", "a", "t", "o", "r", "}", "{", "d", "e", "n", "o", "m", "i", "n", "a", "t", "o", "r", "}">>],
    [Label |-> <<"\\", "t", "e", "x", "t", "b", "f">>,
     InsertText |-> <<"\\", "t", "e", "x", "t", "b", "f", "{", "t", "e", "x", "t", "}">>],
    [Label |-> <<"\\", "h", "r", "e", "f">>,
     InsertText |-> <<"\\", "h", "r", "e", "f", "{", "u", "r", "l", "}", "{", "t", "e", "x", "t", "}">>],
    [Label |-> <<"\\", "u", "r", "l">>,
     InsertText |-> <<"\\", "u", "r", "l", "{", "u", "r", "l", "}">>]
  >>

newLSPModel ==
    [completions |-> <<>>, activeCompletion |-> 0, showCompletions |-> FALSE,
     triggerPrefix |-> <<>>, diagnostics |-> <<>>]

\* The last word of words that starts with the escape character, or "".
RECURSIVE lastEscaped(_)
lastEscaped(words) ==
    IF words = <<>> THEN <<>>
    ELSE IF HasPrefix(words[Len(words)], <<"\\">>) THEN words[Len(words)]
    ELSE lastEscaped(SubSeq(words, 1, Len(words) - 1))

\* What getCompletions(content) can return: the registry entries whose name
\* starts with the current word, in the order "range l.symbols" visits
\* them, which Go leaves unspecified.
RECURSIVE Orders(_)
Orders(S) ==
    IF S = {} THEN {<<>>}
    ELSE UNION {{<<x>> \o p : p \in Orders(S \ {x})} : x \in S}

getCompletions(content) ==
    LET currentWord == lastEscaped(Fields(content))
        hits == IF currentWord = <<>> THEN {}
                ELSE {i \in 1..Len(symbols) :
                         HasPrefix(symbols[i].Label, currentWord)}
    IN  {[i \in 1..Len(p) |-> symbols[p[i]]] : p \in Orders(hits)}

-----------------------------------------------------------------------------
(* The document: block types, templates, files, and initialModel.          *)

blockText == "text"
blockMath == "math"
blockHeading == "heading"
blockCode == "code"
blockQuote == "quote"
blockList == "list"
blockRawLaTeX == "rawlatex"

\* getDefaultTemplates, as written.
getDefaultTemplates ==
  <<
    [Name |-> "Blank Document",
     Content |-> <<
        [ID |-> <<"1">>, Type |-> blockHeading, Language |-> <<>>,
         Content |-> <<"#", " ", "D", "o", "c", "u", "m", "e", "n", "t", " ", "T", "i", "t", "l", "e">>],
        [ID |-> <<"2">>, Type |-> blockText, Language |-> <<>>,
         Content |-> <<"S", "t", "a", "r", "t", " ", "w", "r", "i", "t", "i", "n", "g", " ", "h", "e", "r", "e">>] >>],
    [Name |-> "Academic Notes",
     Content |-> <<
        [ID |-> <<"1">>, Type |-> blockHeading, Language |-> <<>>,
         Content |-> <<"#", " ", "C", "o", "u", "r", "s", "e", " ", "N", "o", "t", "e", "s">>],
        [ID |-> <<"2">>, Type |-> blockHeading, Language |-> <<>>,
         Content |-> <<"#", "#", " ", "T", "o", "p", "i", "c">>],
        [ID |-> <<"3">>, Type |-> blockText, Language |-> <<>>,
         Content |-> <<"K", "e", "y", " ", "c", "o", "n", "c", "e", "p", "t", "s", ":">>],
        [ID |-> <<"4">>, Type |-> blockMath, Language |-> <<>>,
         Content |-> <<"$", "\\", "i", "n", "t", "_", "{", "a", "}", "^", "{", "b", "}", " ", "f", "(", "x", ")", " ", "d", "x", " ", "=", " ", "F", "(", "b", ")", " ", "-", " ", "F", "(", "a", ")", "$">>],
        [ID |-> <<"5">>, Type |-> blockText, Language |-> <<>>,
         Content |-> <<"P", "r", "o", "o", "f", ":">>] >>],
    [Name |-> "Resume",
     Content |-> <<
        [ID |-> <<"1">>, Type |-> blockHeading, Language |-> <<>>,
         Content |-> <<"#", " ", "Y", "o", "u", "r", " ", "N", "a", "m", "e">>],
        [ID |-> <<"2">>, Type |-> blockText, Language |-> <<>>,
         Content |-> <<"e", "m", "a", "i", "l", "@", "e", "x", "a", "m", "p", "l", "e", ".", "c", "o", "m", " ", "|", " ", "(", "5", "5", "5", ")", " ", "1", "2", "3", "-", "4", "5", "6", "7">>],
        [ID |-> <<"3">>, Type |-> blockHeading, Language |-> <<>>,
         Content |-> <<"#", "#", " ", "P", "r", "o", "f", "e", "s", "s", "i", "o", "n", "a", "l", " ", "S", "u", "m", "m", "a", "r", "y">>],
        [ID |-> <<"4">>, Type |-> blockText, Language |-> <<>>,
         Content |-> <<"B", "r", "i", "e", "f", " ", "p", "r", "o", "f", "e", "s", "s", "i", "o", "n", "a", "l", " ", "s", "u", "m", "m", "a", "r", "y">>],
        [ID |-> <<"5">>, Type |-> blockHeading, Language |-> <<>>,
         Content |-> <<"#", "#", " ", "E", "x", "p", "e", "r", "i", "e", "n", "c", "e">>],
        [ID |-> <<"6">>, Type |-> blockText, Language |-> <<>>,
         Content |-> <<"*", "*", "J", "o", "b", " ", "T", "i", "t", "l", "e", "*", "*", " ", "-", " ", "C", "o", "m", "p", "a", "n", "y", " ", "N", "a", "m", "e", " ", "(", "Y", "e", "a", "r", " ", "-", " ", "Y", "e", "a", "r", ")">>] >>],
    [Name |-> "Code Documentation",
     Content |-> <<
        [ID |-> <<"1">>, Type |-> blockHeading, Language |-> <<>>,
         Content |-> <<"#", " ", "P", "r", "o", "j", "e", "c", "t", " ", "N", "a", "m", "e">>],
        [ID |-> <<"2">>, Type |-> blockText, Language |-> <<>>,
         Content |-> <<"B", "r", "i", "e", "f", " ", "p", "r", "o", "j", "e", "c", "t", " ", "d", "e", "s", "c", "r", "i", "p", "t", "i", "o", "n">>],
        [ID |-> <<"3">>, Type |-> blockHeading, Language |-> <<>>,
         Content |-> <<"#", "#", " ", "I", "n", "s", "t", "a", "l", "l", "a", "t", "i", "o", "n">>],
        [ID |-> <<"4">>, Type |-> blockCode, Language |-> <<"b", "a", "s", "h">>,
         Content |-> <<"g", "i", "t", " ", "c", "l", "o", "n", "e", " ", "r", "e", "p", "o", "\n", "c", "d", " ", "p", "r", "o", "j", "e", "c", "t", "\n", "n", "p", "m", " ", "i", "n", "s", "t", "a", "l", "l">>],
        [ID |-> <<"5">>, Type |-> blockHeading, Language |-> <<>>,
         Content |-> <<"#", "#", " ", "U", "s", "a", "g", "e">>],
        [ID |-> <<"6">>, Type |-> blockCode, Language |-> <<"j", "a", "v", "a", "s", "c", "r", "i", "p", "t">>,
         Content |-> <<"c", "o", "n", "s", "t", " ", "e", "x", "a", "m", "p", "l", "e", " ", "=", " ", "r", "e", "q", "u", "i", "r", "e", "(", "'", ".", "/", "e", "x", "a", "m", "p", "l", "e", "'", ")", ";", "\n", "e", "x", "a", "m", "p", "l", "e", ".", "r", "u", "n", "(", ")", ";">>] >>]
  >>

\* encoding/json on a string: a backslash, a quote and a line feed are
\* written as two characters, and read back as one.
RECURSIVE jsonEscape(_)
jsonEscape(s) ==
    IF s = <<>> THEN <<>>
    ELSE (IF s[1] = "\\" THEN <<"\\", "\\">>
          ELSE IF s[1] = "\"" THEN <<"\\", "\"">>
          ELSE IF s[1] = "\n" THEN <<"\\", "n">>
          ELSE <<s[1]>>) \o jsonEscape(Tail(s))

\* A decoder that leaves the escapes as written.
jsonUnescapeNot(s) == s

RECURSIVE jsonUnescape(_)
jsonUnescape(s) ==
    IF s = <<>> THEN <<>>
    ELSE IF s[1] = "\\" /\ Len(s) > 1
    THEN <<IF s[2] = "n" THEN "\n" ELSE s[2]>> \o jsonUnescape(SubSeq(s, 3, Len(s)))
    ELSE <<s[1]>> \o jsonUnescape(Tail(s))

\* A ContentBlock as a JSON object, by the struct's tags: "language" is
\* written only when not empty, and is empty when read from an object
\* without it.
marshalBlock(b) ==
    LET always == [id |-> jsonEscape(b.ID), type |-> b.Type,
                   content |-> jsonEscape(b.Content)]
    IN  IF b.Language = <<>> THEN always
        ELSE always @@ [language |-> jsonEscape(b.Language)]

unmarshalBlock(o) ==
    [ID |-> jsonUnescape(o.id), Type |-> o.type,
     Content |-> jsonUnescape(o.content),
     Language |-> IF "language" \in DOMAIN o THEN jsonUnescape(o.language)
                  ELSE <<>>]

\* The "content" array of a document file, written and read.
MarshalIndent(bs) == [i \in 1..Len(bs) |-> marshalBlock(bs[i])]

Unmarshal(data) == [i \in 1..Len(data) |-> unmarshalBlock(data[i])]

\* The capacity json.Unmarshal leaves a decoded slice of n elements with.
\* The decoder grows the slice an element at a time: as append does, or by
\* half and to four elements at least, by the library the program is built
\* with.
RECURSIVE capacityByAppend(_, _)
capacityByAppend(capacity, n) ==
    IF capacity >= n THEN capacity
    ELSE capacityByAppend(IF capacity = 0 THEN 1 ELSE 2 * capacity, n)

RECURSIVE capacityByHalf(_, _)
capacityByHalf(capacity, n) ==
    IF capacity >= n THEN capacity
    ELSE capacityByHalf(IF capacity + capacity \div 2 < 4 THEN 4
                        ELSE capacity + capacity \div 2, n)

unmarshalCap(n) == {capacityByAppend(0, n), capacityByHalf(0, n)}

\* The files of the browser's directory.  A file is unreadable, or holds
\* bytes that json.Unmarshal rejects, or holds a document: data holds the
\* JSON objects of its blocks.
InitDisk ==
    [path \in {<<"d", ".", "o", "a", "t", "h">>,
               <<"e", ".", "o", "a", "t", "h">>,
               <<"u", ".", "o", "a", "t", "h">>,
               <<"x", ".", "o", "a", "t", "h">>} |->
        IF path[1] = "d"
        THEN [readable |-> TRUE, valid |-> TRUE,
              data |-> << [id |-> <<"1">>, type |-> blockText,
                           content |-> <<"a">>] >>,
              text |-> <<>>]
        ELSE IF path[1] = "e"
        THEN [readable |-> TRUE, valid |-> TRUE, data |-> <<>>, text |-> <<>>]
        ELSE IF path[1] = "u"
        THEN [readable |-> FALSE, valid |-> FALSE, data |-> <<>>, text |-> <<>>]
        ELSE [readable |-> TRUE, valid |-> FALSE, data |-> <<>>, text |-> <<>>]]

newRenderModel == newLRUCache(RenderCacheCapacity)

\* Every variable but the render cache.
\* The timer of the model: whether the duration input and the notes have the
\* focus, the duration the input's text parses to (0 when ParseDuration
\* fails or the duration is not positive), model.duration, model.remaining,
\* model.paused and model.ticker (0 is nil), all in seconds; then the tickers
\* made so far (1 .. made), the ones not stopped, the ones whose channel
\* holds a tick, the goroutines waiting on each ticker's channel, and the
\* tick messages on their way to Update.
newTimer ==
    [focus |-> FALSE, notes |-> FALSE, value |-> 0, duration |-> 0,
     remaining |-> 0, paused |-> FALSE, ticker |-> 0,
     made |-> 0, live |-> {}, buffered |-> {}, waits |-> <<>>, msgs |-> 0]

\* m.ticker = time.NewTicker(time.Second)
NewTicker(tm) ==
    [tm EXCEPT !.made = @ + 1, !.ticker = tm.made + 1,
               !.live = @ \cup {tm.made + 1}, !.waits = Append(@, 0)]

\* m.ticker.Stop(): no more ticks are sent; the channel is not drained.
Stop(tm) == [tm EXCEPT !.live = @ \ {tm.ticker}]

\* The command that receives one tick from the channel of ticker t.
waitForTick(tm, t) == [tm EXCEPT !.waits[t] = @ + 1]

\* m.input.Update(msg) of a key that is a letter of no duration.
inputUpdate(tm) == IF tm.focus THEN [tm EXCEPT !.value = 0] ELSE tm

initialModel ==
    /\ mode = "modeBrowser"
    /\ blocks = <<>>
    /\ backing = <<>>
    /\ currentBlock = 0
    /\ editor = [value |-> <<>>, focus |-> FALSE]
    /\ filepath = <<>>
    /\ modified = FALSE
    /\ lsp = newLSPModel
    /\ menu = [selected |-> 0]
    /\ export = [selected |-> 0, focus |-> FALSE]
    /\ errorMsg = <<>>
    /\ disk = InitDisk
    /\ cmds = <<>>
    /\ now = 0
    /\ recency = <<>>
    /\ renders = <<>>
    /\ lastRender = <<>>
    /\ nFresh = 0
    /\ timer = newTimer
    /\ nOps = 0
    /\ lastOp = "init"

-----------------------------------------------------------------------------
(* Input events.  A key event is a named key or a run of characters (one   *)
(* typed character, or several pasted at once).                            *)

Key(name) == [type |-> name, runes |-> <<>>]
Runes(text) == [type |-> "runes", runes |-> text]

\* The keys the completion switch of updateEdit has a case for.
completionKeys ==
    {Key("down"), Key("up"), Key("enter"), Key("tab"), Key("esc"),
     Runes(<<"j">>), Runes(<<"k">>)}

\* textarea.Model.Update on a key event, the cursor being at the end of the
\* text, where SetValue leaves it: the value after the event.
editorUpdate(value, key) ==
    IF key.type = "runes" THEN value \o key.runes
    ELSE IF key.type = "enter" THEN value \o <<"\n">>
    ELSE IF key.type = "backspace" /\ value # <<>>
         THEN SubSeq(value, 1, Len(value) - 1)
    ELSE value

\* The block at a 0-based index.
Block(i) == blocks[i + 1]

\* A handler takes a key: the history of the run.  A command in flight
\* runs before more than MaxLag keys after its own are handled.
handles(tag) ==
    /\ nOps < MaxOps
    /\ \A i \in DOMAIN cmds : nOps - cmds[i].issued < MaxLag
    /\ nOps' = nOps + 1
    /\ lastOp' = tag

docFrame == <<menu, export, errorMsg, disk, cmds>>

\* The array under the block slice.  A write through the slice (an element
\* assignment, the shift of a deletion, an append within the capacity)
\* changes the array in place and leaves what lies beyond the new length;
\* make, json.Unmarshal and an append beyond the capacity give the slice a
\* new array, and the old one stays as the commands that hold it saw it.
\* Where json.Unmarshal can have left more than one capacity, the array
\* ends in capacityOpen until the first append that needs to know.
ZeroBlock == [ID |-> <<>>, Type |-> "", Content |-> <<>>, Language |-> <<>>]

capacityOpen == [ZeroBlock EXCEPT !.Type = "capacity"]

decoded(doc) ==
    IF Cardinality(unmarshalCap(Len(doc))) > 1 THEN Append(doc, capacityOpen)
    ELSE doc

array(bs, capacity) == bs \o [i \in 1..(capacity - Len(bs)) |-> ZeroBlock]

inPlace(bs) == bs \o SubSeq(backing, Len(bs) + 1, Len(backing))

growslice(capacity) == IF capacity = 0 THEN 1 ELSE 2 * capacity

held(cmd) == IF cmd.shared THEN SubSeq(backing, 1, cmd.len) ELSE cmd.view

released(cs) ==
    [i \in DOMAIN cs |-> [cs[i] EXCEPT !.shared = FALSE, !.view = held(cs[i])]]
clockFrame == <<now, recency, renders, lastRender, nFresh>>

renderFrame == <<clockFrame, timer>>

-----------------------------------------------------------------------------
(* updateBrowser, loadDocument, updateMenu, updateTimer, updateExport.     *)

updateBrowser_space ==
    /\ handles("browser:space")
    /\ mode = "modeBrowser"
    /\ mode' = "modeMenu"
    /\ UNCHANGED <<blocks, backing, currentBlock, editor, filepath, modified, lsp,
                   docFrame, rcache, renderFrame>>

\* A load that drops the document before it reads the file.
loadDocumentClearing(path) ==
    /\ IF ~disk[path].readable \/ ~disk[path].valid
       THEN /\ errorMsg' = IF ~disk[path].readable
                           THEN "Error loading file"
                           ELSE "Error parsing file"
            /\ blocks' = <<>>
            /\ backing' = <<>>
            /\ currentBlock' = 0
            /\ UNCHANGED <<mode, editor, filepath, modified, cmds>>
       ELSE LET doc == Unmarshal(disk[path].data)
            IN  /\ blocks' = doc
                /\ backing' = decoded(doc)
                /\ cmds' = released(cmds)
                /\ filepath' = path
                /\ modified' = FALSE
                /\ currentBlock' = 0
                /\ editor' = IF Len(doc) > 0
                             THEN [editor EXCEPT !.value = doc[1].Content]
                             ELSE editor
                /\ mode' = "modeEdit"
                /\ UNCHANGED errorMsg
    /\ UNCHANGED <<lsp, menu, export, disk, rcache, renderFrame>>

loadDocument(path) ==
    /\ IF ~disk[path].readable
       THEN /\ errorMsg' = "Error loading file"
            /\ UNCHANGED <<mode, blocks, backing, currentBlock, editor,
                           filepath, modified, cmds>>
       ELSE IF ~disk[path].valid
       THEN /\ errorMsg' = "Error parsing file"
            /\ UNCHANGED <<mode, blocks, backing, currentBlock, editor,
                           filepath, modified, cmds>>
       ELSE LET doc == Unmarshal(disk[path].data)
            IN  /\ blocks' = doc
                /\ backing' = decoded(doc)
                /\ cmds' = released(cmds)
                /\ filepath' = path
                /\ modified' = FALSE
                /\ currentBlock' = 0
                /\ editor' = IF Len(doc) > 0
                             THEN [editor EXCEPT !.value = doc[1].Content]
                             ELSE editor
                /\ mode' = "modeEdit"
                /\ UNCHANGED errorMsg
    /\ UNCHANGED <<lsp, menu, export, disk, rcache, renderFrame>>

\* "enter" on a listed file whose name ends in ".oath".
updateBrowser_enter(path) ==
    /\ handles("browser:enter")
    /\ mode = "modeBrowser"
    /\ loadDocument(path)

\* "j", "down"
updateMenu_j ==
    /\ handles("menu:j")
    /\ mode = "modeMenu"
    /\ menu' = IF menu.selected < Len(getDefaultTemplates) - 1
               THEN [menu EXCEPT !.selected = @ + 1]
               ELSE menu
    /\ UNCHANGED <<mode, blocks, backing, currentBlock, editor, filepath, modified,
                   lsp, export, errorMsg, disk, cmds, rcache, renderFrame>>

\* "k", "up"
updateMenu_k ==
    /\ handles("menu:k")
    /\ mode = "modeMenu"
    /\ menu' = IF menu.selected > 0
               THEN [menu EXCEPT !.selected = @ - 1]
               ELSE menu
    /\ UNCHANGED <<mode, blocks, backing, currentBlock, editor, filepath, modified,
                   lsp, export, errorMsg, disk, cmds, rcache, renderFrame>>

updateMenu_q ==
    /\ handles("menu:q")
    /\ mode = "modeMenu"
    /\ mode' = "modeBrowser"
    /\ UNCHANGED <<blocks, backing, currentBlock, editor, filepath, modified, lsp,
                   docFrame, rcache, renderFrame>>

updateMenu_enter ==
    /\ handles("menu:enter")
    /\ mode = "modeMenu"
    /\ LET template == getDefaultTemplates[menu.selected + 1]
       IN  /\ blocks' = template.Content
           /\ backing' = array(template.Content, Len(template.Content))
           /\ cmds' = released(cmds)
           /\ editor' = IF Len(template.Content) > 0
                        THEN [editor EXCEPT
                                !.value = template.Content[1].Content]
                        ELSE editor
    /\ currentBlock' = 0
    /\ filepath' = <<>>
    /\ modified' = TRUE
    /\ mode' = "modeEdit"
    /\ UNCHANGED <<lsp, menu, export, errorMsg, disk, rcache, renderFrame>>

updateMenu_t ==
    /\ handles("menu:t")
    /\ mode = "modeMenu"
    /\ mode' = "modeTimer"
    /\ timer' = [timer EXCEPT !.focus = TRUE]
    /\ UNCHANGED <<blocks, backing, currentBlock, editor, filepath, modified, lsp,
                   docFrame, rcache, clockFrame>>

updateTimer_q ==
    /\ handles("timer:q")
    /\ mode = "modeTimer"
    /\ ~timer.notes
    /\ mode' = "modeEdit"
    /\ timer' = inputUpdate(timer)
    /\ UNCHANGED <<blocks, backing, currentBlock, editor, filepath, modified, lsp,
                   docFrame, rcache, clockFrame>>

updateExport_esc ==
    /\ handles("export:esc")
    /\ mode = "modeExport"
    /\ export.focus
    /\ export' = [export EXCEPT !.focus = FALSE]
    /\ UNCHANGED <<mode, blocks, backing, currentBlock, editor, filepath, modified,
                   lsp, menu, errorMsg, disk, cmds, rcache, renderFrame>>

updateExport_q ==
    /\ handles("export:q")
    /\ mode = "modeExport"
    /\ ~export.focus
    /\ mode' = "modeEdit"
    /\ UNCHANGED <<blocks, backing, currentBlock, editor, filepath, modified, lsp,
                   docFrame, rcache, renderFrame>>

updateExport_enter ==
    /\ handles("export:enter")
    /\ mode = "modeExport"
    /\ ~export.focus
    /\ export' = [export EXCEPT !.focus = TRUE]
    /\ UNCHANGED <<mode, blocks, backing, currentBlock, editor, filepath, modified,
                   lsp, menu, errorMsg, disk, cmds, rcache, renderFrame>>

-----------------------------------------------------------------------------
(* updateEdit: the completion switch, the focused editor, the block keys.  *)

completionOpen == mode = "modeEdit" /\ lsp.showCompletions

\* The key reaches the code below the completion switch.
pastCompletion(key) == ~(lsp.showCompletions /\ key \in completionKeys)

editFrame == <<mode, blocks, backing, currentBlock, filepath, modified, docFrame,
               rcache, renderFrame>>

\* The two assignments that close the popover.
closeCompletionsNot(l) == l

closeCompletions(l) ==
    [l EXCEPT !.showCompletions = FALSE, !.completions = <<>>]

\* A "down" that moves past the last candidate.
completion_downUnguarded ==
    /\ handles("completion:down")
    /\ completionOpen
    /\ lsp' = [lsp EXCEPT !.activeCompletion = @ + 1]
    /\ UNCHANGED <<editor, editFrame>>

\* "j", "down"
completion_down ==
    /\ handles("completion:down")
    /\ completionOpen
    /\ lsp' = IF lsp.activeCompletion < Len(lsp.completions) - 1
              THEN [lsp EXCEPT !.activeCompletion = @ + 1]
              ELSE lsp
    /\ UNCHANGED <<editor, editFrame>>

\* "k", "up"
completion_up ==
    /\ handles("completion:up")
    /\ completionOpen
    /\ lsp' = IF lsp.activeCompletion > 0
              THEN [lsp EXCEPT !.activeCompletion = @ - 1]
              ELSE lsp
    /\ UNCHANGED <<editor, editFrame>>

\* "enter", "tab"
completion_enter ==
    /\ handles("completion:enter")
    /\ completionOpen
    /\ IF Len(lsp.completions) > lsp.activeCompletion
       THEN /\ editor' =
                 IF Contains(editor.value, lsp.triggerPrefix)
                 THEN [editor EXCEPT !.value =
                         ReplaceFirst(editor.value, lsp.triggerPrefix,
                             lsp.completions[lsp.activeCompletion + 1]
                                .InsertText)]
                 ELSE editor
            /\ lsp' = closeCompletions(lsp)
       ELSE UNCHANGED <<editor, lsp>>
    /\ UNCHANGED editFrame

\* "esc"
completion_esc ==
    /\ handles("completion:esc")
    /\ completionOpen
    /\ lsp' = closeCompletions(lsp)
    /\ UNCHANGED <<editor, editFrame>>

\* Esc commits when there is a current block.
commitsNever == FALSE

commits == Len(blocks) > currentBlock

\* Esc in the focused editor with the popover closed: commit.
\* An "esc" that commits and leaves the editor with the popover shown.
updateEdit_escOverPopover ==
    /\ handles("edit:esc")
    /\ mode = "modeEdit"
    /\ editor.focus
    /\ commits
    /\ \E order \in OrdersFor(editor.value) :
          LET r == renderLaTeX(rcache, editor.value, order, now)
          IN  /\ blocks' = [blocks EXCEPT ![currentBlock + 1].Content =
                              editor.value]
              /\ backing' = inPlace(blocks')
              /\ modified' = TRUE
              /\ rcache' = r.cache
              /\ lsp' = [lsp EXCEPT !.diagnostics = r.result.Errors]
    /\ editor' = [editor EXCEPT !.focus = FALSE]
    /\ UNCHANGED <<mode, currentBlock, filepath, docFrame, renderFrame>>

updateEdit_esc ==
    /\ handles("edit:esc")
    /\ mode = "modeEdit"
    /\ pastCompletion(Key("esc"))
    /\ editor.focus
    /\ ~lsp.showCompletions
    /\ IF commits
       THEN \E order \in OrdersFor(editor.value) :
              LET r == renderLaTeX(rcache, editor.value, order, now)
              IN  /\ blocks' = [blocks EXCEPT ![currentBlock + 1].Content =
                                  editor.value]
                  /\ backing' = inPlace(blocks')
                  /\ modified' = TRUE
                  /\ rcache' = r.cache
                  /\ lsp' = [lsp EXCEPT !.diagnostics = r.result.Errors]
       ELSE UNCHANGED <<blocks, backing, modified, rcache, lsp>>
    /\ editor' = [editor EXCEPT !.focus = FALSE]
    /\ UNCHANGED <<mode, currentBlock, filepath, docFrame, renderFrame>>

\* A key in the focused editor that is written through to the block.
updateEdit_inputThrough(key) ==
    /\ handles("edit:input")
    /\ mode = "modeEdit"
    /\ editor.focus
    /\ pastCompletion(key)
    /\ ~(key.type = "esc" /\ ~lsp.showCompletions)
    /\ commits
    /\ editor' = [editor EXCEPT !.value = editorUpdate(editor.value, key)]
    /\ blocks' = [blocks EXCEPT ![currentBlock + 1].Content = editor'.value]
    /\ backing' = inPlace(blocks')
    /\ modified' = TRUE
    /\ UNCHANGED <<mode, currentBlock, filepath, lsp, docFrame, rcache,
                   renderFrame>>

\* Any other key in the focused editor: the editor takes it and the
\* completions are refreshed from the new text.
updateEdit_input(key) ==
    /\ handles("edit:input")
    /\ mode = "modeEdit"
    /\ editor.focus
    /\ pastCompletion(key)
    /\ ~(key.type = "esc" /\ ~lsp.showCompletions)
    /\ LET content == editorUpdate(editor.value, key)
           words == Fields(content)
           lastWord == words[Len(words)]
       IN  /\ editor' = [editor EXCEPT !.value = content]
           /\ IF Len(words) > 0
              THEN IF HasPrefix(lastWord, <<"\\">>) /\ Len(lastWord) > 1
                   THEN \E completions \in getCompletions(content) :
                          lsp' = IF Len(completions) > 0
                                 THEN [lsp EXCEPT
                                         !.completions = completions,
                                         !.showCompletions = TRUE,
                                         !.activeCompletion = 0,
                                         !.triggerPrefix = lastWord]
                                 ELSE lsp
                   ELSE lsp' = [lsp EXCEPT !.showCompletions = FALSE]
              ELSE UNCHANGED lsp
    /\ UNCHANGED editFrame

\* The block keys: the editor is not focused.
browsing(key) == mode = "modeEdit" /\ ~editor.focus /\ pastCompletion(key)

updateEdit_q ==
    /\ handles("edit:q")
    /\ browsing(Runes(<<"q">>))
    /\ mode' = "modeMenu"
    /\ UNCHANGED <<blocks, backing, currentBlock, editor, filepath, modified, lsp,
                   docFrame, rcache, renderFrame>>

\* "j", "down"
\* A "j" that moves the index and leaves the editor's text.
updateEdit_jKeepingText ==
    /\ handles(IF currentBlock < Len(blocks) - 1 THEN "edit:j"
               ELSE "edit:j:last")
    /\ browsing(Key("down"))
    /\ currentBlock' = IF currentBlock < Len(blocks) - 1 THEN currentBlock + 1
                       ELSE currentBlock
    /\ UNCHANGED <<mode, blocks, backing, editor, filepath, modified, lsp,
                   docFrame, rcache, renderFrame>>

updateEdit_j ==
    /\ handles(IF currentBlock < Len(blocks) - 1 THEN "edit:j"
               ELSE "edit:j:last")
    /\ browsing(Key("down"))
    /\ IF currentBlock < Len(blocks) - 1
       THEN /\ currentBlock' = currentBlock + 1
            /\ editor' = [editor EXCEPT
                            !.value = blocks[currentBlock + 2].Content]
       ELSE UNCHANGED <<currentBlock, editor>>
    /\ UNCHANGED <<mode, blocks, backing, filepath, modified, lsp, docFrame, rcache,
                   renderFrame>>

\* "k", "up"
updateEdit_k ==
    /\ handles(IF currentBlock > 0 THEN "edit:k" ELSE "edit:k:first")
    /\ browsing(Key("up"))
    /\ IF currentBlock > 0
       THEN /\ currentBlock' = currentBlock - 1
            /\ editor' = [editor EXCEPT
                            !.value = blocks[currentBlock].Content]
       ELSE UNCHANGED <<currentBlock, editor>>
    /\ UNCHANGED <<mode, blocks, backing, filepath, modified, lsp, docFrame, rcache,
                   renderFrame>>

updateEdit_enter ==
    /\ handles("edit:enter")
    /\ browsing(Key("enter"))
    /\ editor' = IF Len(blocks) > currentBlock
                 THEN [editor EXCEPT !.focus = TRUE]
                 ELSE editor
    /\ UNCHANGED <<mode, blocks, backing, currentBlock, filepath, modified, lsp,
                   docFrame, rcache, renderFrame>>

\* append of one block: within the capacity the array is written in place;
\* beyond it the blocks move to a new array.
appended ==
    \E capacity \in IF Len(blocks) = Len(backing) THEN {Len(backing)}
                     ELSE IF backing[Len(blocks) + 1] = capacityOpen
                     THEN unmarshalCap(Len(blocks))
                     ELSE {Len(backing)} :
       IF Len(blocks) < capacity
       THEN /\ backing' = IF Len(backing) < capacity
                          THEN array(blocks', capacity)
                          ELSE inPlace(blocks')
            /\ UNCHANGED cmds
       ELSE /\ backing' = array(blocks', growslice(capacity))
            /\ cmds' = released(cmds)

\* An "n" that puts the new block before the others.
updateEdit_nAtFront ==
    /\ handles("edit:n")
    /\ browsing(Runes(<<"n">>))
    /\ blocks' = <<[ID |-> Sprintf_d(Len(blocks) + 1),
                    Type |-> blockText,
                    Content |-> <<>>,
                    Language |-> <<>>]>> \o blocks
    /\ backing' = array(blocks', Len(blocks'))
    /\ cmds' = released(cmds)
    /\ currentBlock' = Len(blocks') - 1
    /\ editor' = [value |-> <<>>, focus |-> TRUE]
    /\ modified' = TRUE
    /\ UNCHANGED <<mode, filepath, lsp, menu, export, errorMsg, disk, rcache,
                   renderFrame>>

updateEdit_n ==
    /\ handles("edit:n")
    /\ browsing(Runes(<<"n">>))
    /\ blocks' = Append(blocks, [ID |-> Sprintf_d(Len(blocks) + 1),
                                 Type |-> blockText,
                                 Content |-> <<>>,
                                 Language |-> <<>>])
    /\ appended
    /\ currentBlock' = Len(blocks') - 1
    /\ editor' = [value |-> <<>>, focus |-> TRUE]
    /\ modified' = TRUE
    /\ UNCHANGED <<mode, filepath, lsp, menu, export, errorMsg, disk, rcache,
                   renderFrame>>

\* "m", "c", "l", "r"
convertTo(key) ==
    IF key = "m" THEN blockMath
    ELSE IF key = "c" THEN blockCode
    ELSE IF key = "l" THEN blockList
    ELSE blockRawLaTeX

\* A conversion that also empties the block.
updateEdit_convertEmptying(key) ==
    /\ handles("edit:convert")
    /\ browsing(Runes(<<key>>))
    /\ IF Len(blocks) > currentBlock
       THEN /\ blocks' = [blocks EXCEPT
                            ![currentBlock + 1].Type = convertTo(key),
                            ![currentBlock + 1].Content = <<>>]
            /\ backing' = inPlace(blocks')
            /\ modified' = TRUE
       ELSE UNCHANGED <<blocks, backing, modified>>
    /\ UNCHANGED <<mode, currentBlock, editor, filepath, lsp, docFrame,
                   rcache, renderFrame>>

updateEdit_convert(key) ==
    /\ handles("edit:convert")
    /\ browsing(Runes(<<key>>))
    /\ IF Len(blocks) > currentBlock
       THEN /\ blocks' = [blocks EXCEPT
                            ![currentBlock + 1].Type = convertTo(key)]
            /\ backing' = inPlace(blocks')
            /\ modified' = TRUE
       ELSE UNCHANGED <<blocks, backing, modified>>
    /\ UNCHANGED <<mode, currentBlock, editor, filepath, lsp, docFrame,
                   rcache, renderFrame>>

updateEdit_e ==
    /\ handles("edit:e")
    /\ browsing(Runes(<<"e">>))
    /\ mode' = "modeExport"
    /\ export' = [export EXCEPT !.focus = TRUE]
    /\ UNCHANGED <<blocks, backing, currentBlock, editor, filepath, modified, lsp,
                   menu, errorMsg, disk, cmds, rcache, renderFrame>>

updateEdit_t ==
    /\ handles("edit:t")
    /\ browsing(Runes(<<"t">>))
    /\ mode' = "modeTimer"
    /\ timer' = [timer EXCEPT !.focus = TRUE]
    /\ UNCHANGED <<blocks, backing, currentBlock, editor, filepath, modified, lsp,
                   docFrame, rcache, clockFrame>>

\* The guard of "d", the index "d" keeps for n remaining blocks, and the
\* removal of the current block.
canDelete == Len(blocks) > 1 /\ currentBlock < Len(blocks)

clampIndexKept(cur, n) == cur

clampIndex(cur, n) == IF cur >= n THEN n - 1 ELSE cur

\* A delete of the block after the current one, the last for the last.
deleteNext ==
    LET at == IF currentBlock + 2 <= Len(blocks) THEN currentBlock + 2
              ELSE currentBlock + 1
        rest == SubSeq(blocks, 1, at - 1) \o SubSeq(blocks, at + 1, Len(blocks))
        cur == clampIndex(currentBlock, Len(rest))
    IN  /\ blocks' = rest
        /\ backing' = inPlace(rest)
        /\ currentBlock' = cur
        /\ editor' = [editor EXCEPT !.value = rest[cur + 1].Content]
        /\ modified' = TRUE

deleteCurrent ==
    LET rest == SubSeq(blocks, 1, currentBlock)
                \o SubSeq(blocks, currentBlock + 2, Len(blocks))
        cur == clampIndex(currentBlock, Len(rest))
    IN  /\ blocks' = rest
        /\ backing' = inPlace(rest)
        /\ currentBlock' = cur
        /\ editor' = IF Len(rest) > cur
                     THEN [editor EXCEPT !.value = rest[cur + 1].Content]
                     ELSE editor
        /\ modified' = TRUE

\* A "d" that marks the document modified whether it deletes or not.
updateEdit_dMarking ==
    /\ handles(IF canDelete THEN "edit:d" ELSE "edit:d:kept")
    /\ browsing(Runes(<<"d">>))
    /\ IF canDelete THEN deleteCurrent
       ELSE modified' = TRUE /\ UNCHANGED <<blocks, backing, currentBlock, editor>>
    /\ UNCHANGED <<mode, filepath, lsp, docFrame, rcache, renderFrame>>

updateEdit_d ==
    /\ handles(IF canDelete THEN "edit:d" ELSE "edit:d:kept")
    /\ browsing(Runes(<<"d">>))
    /\ IF canDelete THEN deleteCurrent
       ELSE UNCHANGED <<blocks, backing, currentBlock, editor, modified>>
    /\ UNCHANGED <<mode, filepath, lsp, docFrame, rcache, renderFrame>>

-----------------------------------------------------------------------------
(* Commands: "s" and the export dialog return a closure over a copy of the *)
(* model; the runtime runs it in a goroutine of its own while Update and   *)
(* View go on.  The copy's block slice holds the array the model's has.    *)

upperCase == <<"A", "B", "C", "D", "E", "F", "G", "H", "I", "J", "K", "L", "M", "N", "O", "P", "Q", "R", "S", "T", "U", "V", "W", "X", "Y", "Z">>
lowerCase == <<"a", "b", "c", "d", "e", "f", "g", "h", "i", "j", "k", "l", "m", "n", "o", "p", "q", "r", "s", "t", "u", "v", "w", "x", "y", "z">>
digits == <<"0", "1", "2", "3", "4", "5", "6", "7", "8", "9">>
Range(s) == {s[i] : i \in DOMAIN s}

HasSuffix(s, p) ==
    Len(p) <= Len(s) /\ SubSeq(s, Len(s) - Len(p) + 1, Len(s)) = p

TrimSuffix(s, p) ==
    IF HasSuffix(s, p) THEN SubSeq(s, 1, Len(s) - Len(p)) ELSE s

\* strings.TrimLeft and strings.Trim with a set of characters.
RECURSIVE TrimLeft(_, _)
TrimLeft(s, cutset) ==
    IF s # <<>> /\ s[1] \in cutset THEN TrimLeft(Tail(s), cutset) ELSE s

RECURSIVE TrimRight(_, _)
TrimRight(s, cutset) ==
    IF s # <<>> /\ s[Len(s)] \in cutset
    THEN TrimRight(SubSeq(s, 1, Len(s) - 1), cutset) ELSE s

Trim(s, cutset) == TrimRight(TrimLeft(s, cutset), cutset)

TrimSpace(s) == Trim(s, {" ", "\n", "\t"})

ToLower(s) ==
    [i \in 1..Len(s) |->
        IF s[i] \in Range(upperCase)
        THEN lowerCase[CHOOSE k \in 1..Len(upperCase) : upperCase[k] = s[i]]
        ELSE s[i]]

\* filepath.Base of a path, and filepath.Join of the browser's directory
\* and a name; paths are written from the browser's directory.
RECURSIVE Base(_)
Base(path) ==
    IF Contains(path, <<"/">>)
    THEN Base(SubSeq(path, Index(path, <<"/">>) + 1, Len(path))) ELSE path

Join(name) == name

placeholderTitle == <<"D", "o", "c", "u", "m", "e", "n", "t", " ", "T", "i", "t", "l", "e">>
oathSuffix == <<".", "o", "a", "t", "h">>

\* The name a heading gives, empty when it gives none.
headingName(block) ==
    LET title == TrimSpace(TrimLeft(TrimSpace(block.Content), {"#"}))
        filename == ReplaceAll(ToLower(title), <<" ">>, <<"-">>)
        cleanName == SelectSeq(filename,
                               LAMBDA r : r \in Range(lowerCase)
                                                \cup Range(digits) \cup {"-"})
    IN  IF block.Type = blockHeading /\ TrimSpace(block.Content) # <<>>
           /\ title # <<>> /\ title # placeholderTitle
        THEN Trim(cleanName, {"-"})
        ELSE <<>>

\* A name taken from the last heading that gives one.
getSmartFilenameOfLast(bs, path) ==
    LET named == SelectSeq(bs, LAMBDA b : headingName(b) # <<>>)
    IN  IF named # <<>> THEN headingName(named[Len(named)])
        ELSE IF path # <<>> THEN TrimSuffix(Base(path), oathSuffix)
        ELSE <<"d", "o", "c", "u", "m", "e", "n", "t">>

getSmartFilename(bs, path) ==
    LET named == SelectSeq(bs, LAMBDA b : headingName(b) # <<>>)
    IN  IF named # <<>> THEN headingName(named[1])
        ELSE IF path # <<>> THEN TrimSuffix(Base(path), oathSuffix)
        ELSE <<"d", "o", "c", "u", "m", "e", "n", "t">>

exportPDF == "PDF"
exportHTML == "HTML"
exportUnicode == "Unicode Text"
exportMarkdown == "Markdown"
formats == <<exportPDF, exportHTML, exportUnicode, exportMarkdown>>

\* A command in flight: the slice it holds (held), the path and the file
\* name of the model it copied; and, for the record, the key it was
\* returned for and the blocks as they were then.
command(kind, filename, format) ==
    [kind |-> kind, shared |-> TRUE, view |-> <<>>, len |-> Len(blocks),
     filepath |-> filepath, filename |-> filename, format |-> format,
     issued |-> nOps + 1, doc |-> blocks]

Remove(s, i) == SubSeq(s, 1, i - 1) \o SubSeq(s, i + 1, Len(s))

\* A step of a goroutine: no key is handled.
runs(tag) == lastOp' = tag /\ UNCHANGED nOps

\* "s", "ctrl+s"
updateEdit_s ==
    /\ handles("edit:s")
    /\ browsing(Runes(<<"s">>))
    /\ cmds' = Append(cmds, command("save", <<>>, exportPDF))
    /\ UNCHANGED <<mode, blocks, backing, currentBlock, editor, filepath,
                   modified, lsp, menu, export, errorMsg, disk, rcache,
                   renderFrame>>

\* A file that holds a document.
documentFile(bs) ==
    [readable |-> TRUE, valid |-> TRUE, data |-> MarshalIndent(bs),
     text |-> <<>>]

\* A file that holds exported text, which json.Unmarshal rejects.  text
\* holds the text written for each block, in document order; the lines a
\* generator writes before the first block and after the last are the same
\* for every document and left out.
exportedFile(text) ==
    [readable |-> TRUE, valid |-> FALSE, data |-> <<>>, text |-> text]

WriteFile(files, path, file) == (path :> file) @@ files

\* The path the closure of saveDocument writes.
savePath(cmd) ==
    IF cmd.filepath # <<>> THEN cmd.filepath
    ELSE Join(getSmartFilename(held(cmd), cmd.filepath) \o oathSuffix)

\* The closure of saveDocument runs; ioutil.WriteFile writes the file or
\* fails.  What the closure assigns goes to its copy of the model.
saveDocument(i) ==
    /\ i \in DOMAIN cmds
    /\ cmds[i].kind = "save"
    /\ \E err \in BOOLEAN :
          /\ runs(IF err THEN "cmd:save:error" ELSE "cmd:save")
          /\ disk' = IF err THEN disk
                     ELSE WriteFile(disk, savePath(cmds[i]),
                                    documentFile(held(cmds[i])))
    /\ cmds' = Remove(cmds, i)
    /\ UNCHANGED <<mode, blocks, backing, currentBlock, editor, filepath,
                   modified, lsp, menu, export, errorMsg, rcache, renderFrame>>

\* "j", "down" and "k", "up" in the export dialog, the input not focused.
updateExport_j ==
    /\ handles("export:j")
    /\ mode = "modeExport"
    /\ ~export.focus
    /\ export' = IF export.selected < Len(formats) - 1
                 THEN [export EXCEPT !.selected = @ + 1]
                 ELSE export
    /\ UNCHANGED <<mode, blocks, backing, currentBlock, editor, filepath,
                   modified, lsp, menu, errorMsg, disk, cmds, rcache,
                   renderFrame>>

updateExport_k ==
    /\ handles("export:k")
    /\ mode = "modeExport"
    /\ ~export.focus
    /\ export' = IF export.selected > 0
                 THEN [export EXCEPT !.selected = @ - 1]
                 ELSE export
    /\ UNCHANGED <<mode, blocks, backing, currentBlock, editor, filepath,
                   modified, lsp, menu, errorMsg, disk, cmds, rcache,
                   renderFrame>>

\* Enter in the focused input, the input empty: the export command is
\* returned, for the smart file name and the selected format.
updateExport_export ==
    /\ handles("export:export")
    /\ mode = "modeExport"
    /\ export.focus
    /\ cmds' = Append(cmds, command("export",
                                    getSmartFilename(blocks, filepath),
                                    formats[export.selected + 1]))
    /\ UNCHANGED <<mode, blocks, backing, currentBlock, editor, filepath,
                   modified, lsp, menu, export, errorMsg, disk, rcache,
                   renderFrame>>

\* strings.Join
RECURSIVE JoinWith(_, _)
JoinWith(words, sep) ==
    IF words = <<>> THEN <<>>
    ELSE IF Len(words) = 1 THEN words[1]
    ELSE words[1] \o sep \o JoinWith(Tail(words), sep)

\* The lines of a list block that are items, without their bullets.
items(content) ==
    LET lines == SplitLines(content)
        trimmed == [k \in 1..Len(lines) |-> TrimSpace(lines[k])]
        bulleted == SelectSeq(trimmed, LAMBDA line :
                        HasPrefix(line, <<"-", " ">>) \/ HasPrefix(line, <<"*", " ">>))
    IN  [k \in 1..Len(bulleted) |->
            TrimSpace(SubSeq(bulleted[k], 3, Len(bulleted[k])))]

RECURSIVE Concat(_)
Concat(texts) == IF texts = <<>> THEN <<>> ELSE texts[1] \o Concat(Tail(texts))

\* The language a listing is given.
languageOf(block) == IF block.Language = <<>> THEN <<"t", "e", "x", "t">> ELSE block.Language

\* convertInlineMath from character i on.
RECURSIVE convertInlineMath(_, _, _)
convertInlineMath(text, i, inMath) ==
    IF i > Len(text) THEN <<>>
    ELSE IF text[i] = "$"
    THEN IF i > 1 /\ text[i - 1] = "\\"
         THEN <<text[i]>> \o convertInlineMath(text, i + 1, inMath)
         ELSE (IF inMath THEN <<"\\", ")">> ELSE <<"\\", "(">>)
              \o convertInlineMath(text, i + 1, ~inMath)
    ELSE <<text[i]>> \o convertInlineMath(text, i + 1, inMath)

\* smartFormatText from character i on.
RECURSIVE smartFormatText(_, _, _)
smartFormatText(text, i, inMath) ==
    LET n == Len(text)
        two == SubSeq(text, i, i + 1)
        bold == IF i + 2 < n /\ two = <<"*", "*">>
                THEN Index(SubSeq(text, i + 2, n), <<"*", "*">>)
                ELSE 0
        single(j) == /\ text[j] = "*"
                     /\ (j = 1 \/ text[j - 1] # "*")
                     /\ (j = n \/ text[j + 1] # "*")
        ends == IF single(i) THEN {j \in (i + 1)..n : single(j)} ELSE {}
        end == IF ends = {} THEN 0
               ELSE CHOOSE j \in ends : \A k \in ends : j <= k
    IN  IF i > n THEN <<>>
        ELSE IF i < n /\ two = <<"\\", "(">>
        THEN two \o smartFormatText(text, i + 2, TRUE)
        ELSE IF i < n /\ two = <<"\\", ")">>
        THEN two \o smartFormatText(text, i + 2, FALSE)
        ELSE IF inMath
        THEN <<text[i]>> \o smartFormatText(text, i + 1, inMath)
        ELSE IF bold > 1
        THEN <<"\\", "t", "e", "x", "t", "b", "f", "{">> \o SubSeq(text, i + 2, i + bold) \o <<"}">>
             \o smartFormatText(text, i + 3 + bold, inMath)
        ELSE IF end > i + 1
        THEN <<"\\", "t", "e", "x", "t", "i", "t", "{">> \o SubSeq(text, i + 1, end - 1) \o <<"}">>
             \o smartFormatText(text, end + 1, inMath)
        ELSE <<text[i]>> \o smartFormatText(text, i + 1, inMath)

\* The scan of processDelimiterBasedMath from character i on.
RECURSIVE scanMath(_, _)
scanMath(content, i) ==
    LET n == Len(content)
        display == IF i < n /\ SubSeq(content, i, i + 1) = <<"$", "$">>
                   THEN Index(SubSeq(content, i + 2, n), <<"$", "$">>)
                   ELSE 0
        inline == IF content[i] = "$"
                  THEN Index(SubSeq(content, i + 1, n), <<"$">>)
                  ELSE 0
    IN  IF i > n THEN <<>>
        ELSE IF display > 0
        THEN <<"\\", "v", "s", "p", "a", "c", "e", "{", "0", ".", "3", "e", "m", "}", "\n", "\\", "b", "e", "g", "i", "n", "{", "e", "q", "u", "a", "t", "i", "o", "n", "*", "}", "\n">>
             \o SubSeq(content, i + 2, i + display)
             \o <<"\n", "\\", "e", "n", "d", "{", "e", "q", "u", "a", "t", "i", "o", "n", "*", "}", "\n", "\\", "v", "s", "p", "a", "c", "e", "{", "0", ".", "3", "e", "m", "}", "\n">>
             \o scanMath(content, i + 3 + display)
        ELSE IF inline > 0
        THEN <<"\\", "(">> \o SubSeq(content, i + 1, i + inline - 1) \o <<"\\", ")">>
             \o scanMath(content, i + 1 + inline)
        ELSE IF content[i] = "\n" /\ i < n /\ content[i + 1] = "\n"
        THEN <<"\n", "\n">> \o scanMath(content, i + 2)
        ELSE <<content[i]>> \o scanMath(content, i + 1)

processDelimiterBasedMath(rawContent) ==
    <<"\\", "v", "s", "p", "a", "c", "e", "{", "0", ".", "5", "e", "m", "}", "\n">> \o scanMath(TrimSpace(rawContent), 1)
    \o <<"\\", "v", "s", "p", "a", "c", "e", "{", "0", ".", "5", "e", "m", "}", "\n">>

\* What generateLaTeX writes for a block.  No block of the documents here
\* is numbered.
latexOf(block) ==
    IF block.Type = blockHeading
    THEN LET level == Count(TrimSpace(block.Content), "#")
             title == TrimSpace(TrimLeft(block.Content, {"#"}))
         IN  (IF level = 1 THEN <<"\\", "s", "e", "c", "t", "i", "o", "n", "*", "{">>
              ELSE IF level = 2 THEN <<"\\", "s", "u", "b", "s", "e", "c", "t", "i", "o", "n", "*", "{">>
              ELSE IF level = 3 THEN <<"\\", "s", "u", "b", "s", "u", "b", "s", "e", "c", "t", "i", "o", "n", "*", "{">>
              ELSE <<"\\", "p", "a", "r", "a", "g", "r", "a", "p", "h", "*", "{">>) \o title \o <<"}", "\n">>
    ELSE IF block.Type = blockMath
    THEN processDelimiterBasedMath(block.Content)
    ELSE IF block.Type = blockCode
    THEN <<"\\", "b", "e", "g", "i", "n", "{", "l", "s", "t", "l", "i", "s", "t", "i", "n", "g", "}", "[", "l", "a", "n", "g", "u", "a", "g", "e", "=">> \o languageOf(block) \o <<"]", "\n">>
         \o block.Content \o <<"\n", "\\", "e", "n", "d", "{", "l", "s", "t", "l", "i", "s", "t", "i", "n", "g", "}", "\n">>
    ELSE IF block.Type = blockQuote
    THEN <<"\\", "b", "e", "g", "i", "n", "{", "q", "u", "o", "t", "e", "}", "\n">> \o block.Content \o <<"\n", "\\", "e", "n", "d", "{", "q", "u", "o", "t", "e", "}", "\n">>
    ELSE IF block.Type = blockList
    THEN <<"\\", "b", "e", "g", "i", "n", "{", "i", "t", "e", "m", "i", "z", "e", "}", "\n">>
         \o Concat([k \in 1..Len(items(block.Content)) |->
                       <<"\\", "i", "t", "e", "m", " ">> \o items(block.Content)[k] \o <<"\n">>])
         \o <<"\\", "e", "n", "d", "{", "i", "t", "e", "m", "i", "z", "e", "}", "\n">>
    ELSE IF block.Type = blockRawLaTeX
    THEN block.Content \o <<"\n">>
    ELSE LET text == smartFormatText(
                         convertInlineMath(block.Content, 1, FALSE), 1, FALSE)
             words == Fields(text)
         IN  (IF Contains(text, <<"h", "t", "t", "p">>)
              THEN JoinWith([j \in 1..Len(words) |->
                                IF HasPrefix(words[j], <<"h", "t", "t", "p">>)
                                THEN <<"\\", "u", "r", "l", "{">> \o words[j] \o <<"}">>
                                ELSE words[j]], <<" ">>)
              ELSE text) \o <<"\n">>

generateLaTeX(bs) ==
    [i \in 1..Len(bs) |->
        latexOf(bs[i]) \o (IF i < Len(bs) THEN <<"\\", "v", "s", "p", "a", "c", "e", "{", "0", ".", "8", "e", "m", "}", "\n", "\n">> ELSE <<>>)]

\* What generateHTML writes for a block.
htmlOf(block) ==
    IF block.Type = blockHeading
    THEN LET level == Count(TrimSpace(block.Content), "#")
             title == TrimSpace(TrimLeft(block.Content, {"#"}))
         IN  <<"<", "h">> \o Sprintf_d(level) \o <<">">> \o title
             \o <<"<", "/", "h">> \o Sprintf_d(level) \o <<">", "\n">>
    ELSE IF block.Type = blockMath
    THEN <<"<", "p", ">", "\\", "[">> \o Trim(block.Content, {"$"}) \o <<"\\", "]", "<", "/", "p", ">", "\n">>
    ELSE IF block.Type = blockCode
    THEN <<"<", "p", "r", "e", ">", "<", "c", "o", "d", "e", " ", "c", "l", "a", "s", "s", "=", "\"", "l", "a", "n", "g", "u", "a", "g", "e", "-">> \o languageOf(block) \o <<"\"", ">">>
         \o block.Content \o <<"<", "/", "c", "o", "d", "e", ">", "<", "/", "p", "r", "e", ">", "\n">>
    ELSE IF block.Type = blockQuote
    THEN <<"<", "b", "l", "o", "c", "k", "q", "u", "o", "t", "e", ">">> \o block.Content \o <<"<", "/", "b", "l", "o", "c", "k", "q", "u", "o", "t", "e", ">", "\n">>
    ELSE IF block.Type = blockList
    THEN <<"<", "u", "l", ">", "\n">>
         \o Concat([k \in 1..Len(items(block.Content)) |->
                       <<"<", "l", "i", ">">> \o items(block.Content)[k] \o <<"<", "/", "l", "i", ">", "\n">>])
         \o <<"<", "/", "u", "l", ">", "\n">>
    ELSE IF block.Type = blockRawLaTeX
    THEN <<"<", "d", "i", "v", " ", "c", "l", "a", "s", "s", "=", "\"", "r", "a", "w", "-", "l", "a", "t", "e", "x", "\"", ">", "\\", "[">> \o block.Content \o <<"\\", "]", "<", "/", "d", "i", "v", ">", "\n">>
    ELSE LET t1 == ReplaceAll(block.Content, <<"*", "*">>, <<"<", "s", "t", "r", "o", "n", "g", ">">>)
             t2 == ReplaceAll(t1, <<"*", "*">>, <<"<", "/", "s", "t", "r", "o", "n", "g", ">">>)
             t3 == ReplaceAll(t2, <<"*">>, <<"<", "e", "m", ">">>)
             t4 == ReplaceAll(t3, <<"*">>, <<"<", "/", "e", "m", ">">>)
             text == IF Contains(t4, <<"h", "t", "t", "p">>)
                     THEN ReplaceAll(ReplaceAll(t4, <<"h", "t", "t", "p">>, <<"<", "a", " ", "h", "r", "e", "f", "=", "\"", "h", "t", "t", "p">>),
                                     <<" ">>, <<"\"", ">", " ">>)
                     ELSE t4
         IN  <<"<", "p", ">">> \o text \o <<"<", "/", "p", ">", "\n">>

generateHTML(bs) == [i \in 1..Len(bs) |-> htmlOf(bs[i])]

\* The fence of a code block and the lines of a quote, as generateUnicode
\* and generateMarkdown both write them.
fenced(block) ==
    <<"U+0060", "U+0060", "U+0060">> \o block.Language \o <<"\n">> \o block.Content \o <<"\n", "U+0060", "U+0060", "U+0060", "\n", "\n">>

quoted(block) ==
    Concat([k \in 1..Len(SplitLines(block.Content)) |->
               <<">", " ">> \o SplitLines(block.Content)[k] \o <<"\n">>]) \o <<"\n">>

generateMarkdown(bs) ==
    [i \in 1..Len(bs) |->
        IF bs[i].Type = blockCode THEN fenced(bs[i])
        ELSE IF bs[i].Type = blockQuote THEN quoted(bs[i])
        ELSE IF bs[i].Type = blockList THEN bs[i].Content \o <<"\n", "\n">>
        ELSE IF bs[i].Type = blockMath
        THEN <<"$">> \o Trim(bs[i].Content, {"$"}) \o <<"$", "\n", "\n">>
        ELSE IF bs[i].Type = blockRawLaTeX
        THEN <<"U+0060", "U+0060", "U+0060", "l", "a", "t", "e", "x", "\n">> \o bs[i].Content \o <<"\n", "U+0060", "U+0060", "U+0060", "\n", "\n">>
        ELSE bs[i].Content \o <<"\n", "\n">>]

\* generateUnicode from the blocks bs on, data written and cache c so far:
\* the texts it may write and the caches it may leave.  It renders every
\* block that is not code or a quote, in document order.
RECURSIVE generateUnicode(_, _, _)
generateUnicode(bs, c, data) ==
    IF bs = <<>> THEN {[cache |-> c, data |-> data]}
    ELSE IF bs[1].Type = blockCode
    THEN generateUnicode(Tail(bs), c, Append(data, fenced(bs[1])))
    ELSE IF bs[1].Type = blockQuote
    THEN generateUnicode(Tail(bs), c, Append(data, quoted(bs[1])))
    ELSE UNION {LET rendered == renderLaTeX(c, bs[1].Content, order, now)
                IN  generateUnicode(Tail(bs), rendered.cache,
                        Append(data, rendered.result.Unicode \o <<"\n", "\n">>))
                : order \in OrdersFor(bs[1].Content)}

\* A markup file written under the name of a document file.
texSuffixOfDocument == oathSuffix

texSuffix == <<".", "t", "e", "x">>
pdfSuffix == <<".", "p", "d", "f">>
cleaned == {<<".", "a", "u", "x">>, <<".", "l", "o", "g">>, <<".", "f", "l", "s">>, <<".", "f", "d", "b", "_", "l", "a", "t", "e", "x", "m", "k">>, <<".", "s", "y", "n", "c", "t", "e", "x", ".", "g", "z">>, <<".", "o", "u", "t">>,
            <<".", "t", "o", "c">>, <<".", "t", "e", "x">>}

writeFailed == "failed to write"
notFound == "pdflatex not found"
runFailed == "pdflatex failed"

\* generatePDF: what it may leave in the directory and the error it
\* returns with it, "" for none.  The markup file is written or the write
\* fails; pdflatex is not found, or fails and leaves its log, or builds the
\* document beside its by-products; after a build every file of the
\* directory named filename + "." ... with a suffix of the list is removed.
generatePDF(files, filename, bs) ==
    LET file == exportedFile(<<>>)
        written == WriteFile(files, Join(filename \o texSuffix),
                             exportedFile(generateLaTeX(bs)))
        logged == WriteFile(written, filename \o <<".", "l", "o", "g">>, file)
        built == WriteFile(WriteFile(logged, filename \o pdfSuffix, file),
                           filename \o <<".", "a", "u", "x">>, file)
        kept == {name \in DOMAIN built :
                    ~(/\ HasPrefix(name, filename \o <<".">>)
                      /\ \E suffix \in cleaned : HasSuffix(name, suffix))}
    IN  {[files |-> files, err |-> writeFailed],
         [files |-> written, err |-> notFound],
         [files |-> logged, err |-> runFailed],
         [files |-> [name \in kept |-> built[name]], err |-> ""]}

\* The closure of exportDocument runs.  Update has no case for the error
\* the closure returns: it returns the model as it is.
exportDocument(i) ==
    /\ i \in DOMAIN cmds
    /\ cmds[i].kind = "export"
    /\ LET filename == cmds[i].filename
           format == cmds[i].format
           bs == held(cmds[i])
           written(suffix, data, c) ==
               {[files |-> disk, err |-> writeFailed, cache |-> c],
                [files |-> WriteFile(disk, Join(filename \o suffix),
                                     exportedFile(data)),
                 err |-> "", cache |-> c]}
           returned ==
               IF format = exportPDF
               THEN {[files |-> o.files, err |-> o.err, cache |-> rcache] :
                        o \in generatePDF(disk, filename, bs)}
               ELSE IF format = exportHTML
               THEN written(<<".", "h", "t", "m", "l">>, generateHTML(bs), rcache)
               ELSE IF format = exportUnicode
               THEN UNION {written(<<".", "t", "x", "t">>, u.data, u.cache) :
                              u \in generateUnicode(bs, rcache, <<>>)}
               ELSE written(<<".", "m", "d">>, generateMarkdown(bs), rcache)
       IN  \E o \in returned :
              /\ runs(IF o.err = "" THEN "cmd:export" ELSE "cmd:export:error")
              /\ disk' = o.files
              /\ rcache' = o.cache
    /\ cmds' = Remove(cmds, i)
    /\ UNCHANGED <<mode, blocks, backing, currentBlock, editor, filepath,
                   modified, lsp, menu, export, errorMsg, renderFrame>>

-----------------------------------------------------------------------------
(* Spec: the controller from start-up, under every key the handlers above *)
(* have a case for, in runs of at most MaxOps keys (see handles).          *)

\* The keys given to the focused editor: characters, a space, a pasted
\* macro prefix and backspace.
EditKeys ==
    {Runes(<<"a">>), Runes(<<"{">>), Runes(<<" ">>), Runes(<<"\\", "a">>),
     Key("backspace")}

ConvertKeys == {"m", "c", "l", "r"}

Init ==
    /\ initialModel
    /\ rcache = newRenderModel

Next ==
    \/ updateBrowser_space
    \/ \E path \in DOMAIN disk : updateBrowser_enter(path)
    \/ updateMenu_q
    \/ updateMenu_j
    \/ updateMenu_k
    \/ updateMenu_enter
    \/ updateMenu_t
    \/ updateTimer_q
    \/ updateExport_esc
    \/ updateExport_q
    \/ updateExport_enter
    \/ completion_down
    \/ completion_up
    \/ completion_enter
    \/ completion_esc
    \/ updateEdit_esc
    \/ \E key \in EditKeys : updateEdit_input(key)
    \/ updateEdit_q
    \/ updateEdit_j
    \/ updateEdit_k
    \/ updateEdit_enter
    \/ updateEdit_n
    \/ \E key \in ConvertKeys : updateEdit_convert(key)
    \/ updateEdit_e
    \/ updateEdit_t
    \/ updateEdit_d
    \/ updateEdit_s
    \/ updateExport_j
    \/ updateExport_k
    \/ updateExport_export
    \/ \E i \in DOMAIN cmds : saveDocument(i)
    \/ \E i \in DOMAIN cmds : exportDocument(i)

Spec == Init /\ [][Next]_vars

\* The handler named by tag handled a key in this step.
Handled(tag) == nOps' # nOps /\ lastOp' = tag

Browsing == mode = "modeEdit" /\ ~editor.focus

Editing == mode = "modeEdit" /\ editor.focus

\* C1: in edit mode the document holds at least one block.
EditModeHasBlock == mode = "modeEdit" => Len(blocks) >= 1

\* C2: in Browsing with exactly one block, delete changes nothing: the
\* blocks, the current index and the modified flag stay as they were.
DeleteOfSoleBlockChangesNothing ==
    [][Browsing /\ ~lsp.showCompletions /\ Len(blocks) = 1
         /\ (Handled("edit:d") \/ Handled("edit:d:kept"))
       => UNCHANGED <<blocks, currentBlock, modified>>]_vars

\* C2 witness: "d" was pressed on a sole block, which is still there.
SoleBlockKept ==
    /\ lastOp = "edit:d:kept"
    /\ Browsing
    /\ Len(blocks) = 1

\* C3: whenever the document is non-empty the current index is within
\* 0..len-1, and navigating up at index 0 or down at index len-1 leaves
\* the index unchanged.
CurrentIndexInRange ==
    /\ [](blocks # <<>> => currentBlock \in 0..(Len(blocks) - 1))
    /\ [][Browsing /\ ~lsp.showCompletions /\ blocks # <<>>
            /\ \/ currentBlock = 0
                  /\ (Handled("edit:k") \/ Handled("edit:k:first"))
               \/ currentBlock = Len(blocks) - 1
                  /\ (Handled("edit:j") \/ Handled("edit:j:last"))
          => currentBlock' = currentBlock]_vars

\* C3 witness: "j" was pressed on the last of several blocks.
NavigatedDownAtLastBlock ==
    /\ lastOp = "edit:j:last"
    /\ Len(blocks) >= 2
    /\ currentBlock = Len(blocks) - 1

\* C4: no two blocks of the document have the same id.
BlockIdsDistinct ==
    \A i, j \in 1..Len(blocks) : i # j => blocks[i].ID # blocks[j].ID

\* C9: in Editing with the popover closed, Esc stores the editor's text in
\* the current block, marks the document modified, makes the diagnostics
\* of that text the stored diagnostics, and leaves the controller in
\* Browsing.
EscCommitsBuffer ==
    [][Editing /\ ~lsp.showCompletions /\ Len(blocks) > currentBlock
         /\ Handled("edit:esc")
       => /\ blocks' = [blocks EXCEPT
                          ![currentBlock + 1].Content = editor.value]
          /\ modified'
          /\ lsp'.diagnostics = validateSyntax(editor.value)
          /\ Browsing'
          /\ ~lsp'.showCompletions
          /\ currentBlock' = currentBlock]_vars

\* C9 witness: Esc committed a text that has diagnostics.
CommittedTextWithDiagnostics ==
    /\ lastOp = "edit:esc"
    /\ Browsing
    /\ Len(blocks) > currentBlock
    /\ blocks[currentBlock + 1].Content = editor.value
    /\ lsp.diagnostics # <<>>
    /\ modified

\* C10: while the popover is open, Esc closes the popover and nothing
\* else: the editor's text and the blocks are unchanged and the controller
\* is still in Editing, so that the text is committed only by another Esc.
EscClosesPopoverOnly ==
    [][mode = "modeEdit" /\ lsp.showCompletions /\ Handled("completion:esc")
       => /\ ~lsp'.showCompletions
          /\ editor'.value = editor.value
          /\ UNCHANGED <<blocks, currentBlock, modified>>
          /\ Editing']_vars

\* C10 witness: the popover was dismissed over a text not yet committed.
PopoverDismissedBeforeCommit ==
    /\ lastOp = "completion:esc"
    /\ Editing
    /\ ~lsp.showCompletions
    /\ Len(blocks) > currentBlock
    /\ blocks[currentBlock + 1].Content # editor.value

\* The trailing token of content names a macro prefix some registry entry
\* starts with.
TrailingTokenMatches(content) ==
    LET words == Fields(content)
    IN  /\ words # <<>>
        /\ HasPrefix(words[Len(words)], <<"\\">>)
        /\ Len(words[Len(words)]) > 1
        /\ \E i \in 1..Len(symbols) :
              HasPrefix(symbols[i].Label, words[Len(words)])

\* C11: after every change of the editor's text in Editing the popover is
\* open if and only if the trailing token has completions; a change that
\* leaves a trailing token without completions closes an open popover.
PopoverFollowsTrailingToken ==
    [][Editing /\ Handled("edit:input")
       => (lsp'.showCompletions <=> TrailingTokenMatches(editor'.value))]_vars

\* Where the trailing token of content starts and ends (0 when there is no
\* token).
TrailingTokenEnd(content) ==
    LET ends == {i \in 1..Len(content) : ~IsSpace(content[i])}
    IN  IF ends = {} THEN 0
        ELSE CHOOSE i \in ends : \A j \in ends : j <= i

TrailingTokenStart(content) ==
    LET end == TrailingTokenEnd(content)
        starts == {i \in 1..end :
                      \A j \in i..end : ~IsSpace(content[j])}
    IN  IF starts = {} THEN 0
        ELSE CHOOSE i \in starts : \A j \in starts : i <= j

\* C12: accepting a candidate replaces the trailing token, which opened the
\* popover, with the candidate's insertion text, leaves the text before and
\* after that token as it was, and closes the popover.
AcceptReplacesTrailingToken ==
    [][/\ Editing /\ lsp.showCompletions
       /\ Handled("completion:enter")
       /\ Len(lsp.completions) > lsp.activeCompletion
       /\ TrailingTokenStart(editor.value) > 0
       /\ lsp.triggerPrefix
            = SubSeq(editor.value, TrailingTokenStart(editor.value),
                     TrailingTokenEnd(editor.value))
       => /\ editor'.value
               = SubSeq(editor.value, 1,
                        TrailingTokenStart(editor.value) - 1)
                 \o lsp.completions[lsp.activeCompletion + 1].InsertText
                 \o SubSeq(editor.value, TrailingTokenEnd(editor.value) + 1,
                           Len(editor.value))
          /\ ~lsp'.showCompletions]_vars

\* C13: while the popover is open, "up" and "down" change nothing but the
\* index of the active candidate, which stays within the candidate list.
CandidateNavigationMovesIndexOnly ==
    [][/\ mode = "modeEdit" /\ lsp.showCompletions
       /\ Handled("completion:down") \/ Handled("completion:up")
       => /\ lsp'.activeCompletion \in 0..(Len(lsp.completions) - 1)
          /\ lsp' = [lsp EXCEPT !.activeCompletion = lsp'.activeCompletion]
          /\ UNCHANGED <<mode, blocks, currentBlock, editor, filepath,
                         modified, rcache>>]_vars

\* C13 witness: "down" was pressed on an open popover, whose active
\* candidate is in the list.
CandidateNavigated ==
    /\ lastOp = "completion:down"
    /\ Editing
    /\ lsp.showCompletions
    /\ lsp.activeCompletion < Len(lsp.completions)

\* C14: "n" in Browsing appends one block of type text with empty content,
\* leaves the blocks before it as they were, makes the new block current
\* and puts the controller in Editing.
CreateAppendsEmptyTextBlock ==
    [][Browsing /\ ~lsp.showCompletions /\ Handled("edit:n")
       => /\ Len(blocks') = Len(blocks) + 1
          /\ SubSeq(blocks', 1, Len(blocks)) = blocks
          /\ blocks'[Len(blocks')].Type = blockText
          /\ blocks'[Len(blocks')].Content = <<>>
          /\ currentBlock' = Len(blocks') - 1
          /\ Editing'
          /\ editor'.value = <<>>]_vars

\* C14 witness: "n" added a block to a document that had blocks.
BlockCreatedAfterOthers ==
    /\ lastOp = "edit:n"
    /\ Editing
    /\ Len(blocks) >= 2
    /\ currentBlock = Len(blocks) - 1
    /\ blocks[Len(blocks)].Content = <<>>
    /\ blocks[1].Content # <<>>

\* C15: converting the current block changes its type and nothing else of
\* the blocks: its id and content, the other blocks, their order and the
\* current index stay as they were, and the controller stays in Browsing.
ConvertChangesTypeOnly ==
    [][Browsing /\ ~lsp.showCompletions /\ Handled("edit:convert")
         /\ Len(blocks) > currentBlock
       => /\ blocks' = [blocks EXCEPT ![currentBlock + 1].Type =
                          blocks'[currentBlock + 1].Type]
          /\ blocks'[currentBlock + 1].Type
               \in {blockMath, blockCode, blockList, blockRawLaTeX}
          /\ currentBlock' = currentBlock
          /\ Browsing']_vars

\* C15 witness: a block with content was converted to another type.
BlockConverted ==
    /\ lastOp = "edit:convert"
    /\ Browsing
    /\ Len(blocks) >= 2
    /\ blocks[currentBlock + 1].Type = blockRawLaTeX
    /\ blocks[currentBlock + 1].Content # <<>>

\* C17: loading a file that cannot be read or parsed reports an error and
\* leaves the document in memory and the mode as they were.
FailedLoadLeavesDocument ==
    [][\A path \in DOMAIN disk :
          /\ ~disk[path].readable \/ ~disk[path].valid
          /\ updateBrowser_enter(path)
          => /\ errorMsg' \in {"Error loading file", "Error parsing file"}
             /\ UNCHANGED <<mode, blocks, currentBlock, filepath, modified>>
      ]_vars

\* C17 witness: with a document in memory, a load failed to parse.
LoadFailedOverDocument ==
    /\ lastOp = "browser:enter"
    /\ errorMsg = "Error parsing file"
    /\ mode = "modeBrowser"
    /\ blocks # <<>>
    /\ modified

\* The document files of a directory, and the save commands in flight.
DocumentFiles(files) ==
    [path \in {p \in DOMAIN files : HasSuffix(p, oathSuffix)} |-> files[path]]

Saves(cs) == Cardinality({i \in DOMAIN cs : cs[i].kind = "save"})

\* C16: a document file is written only by the save command, and a save
\* command is started only by the save key: no other key (navigation,
\* create, delete, convert, commit, a mode change) and no export writes,
\* creates or removes a document file.
DocumentWrittenOnlyBySave ==
    [][/\ DocumentFiles(disk') # DocumentFiles(disk)
            => lastOp' = "cmd:save" /\ Saves(cmds') < Saves(cmds)
       /\ Saves(cmds') > Saves(cmds) => Handled("edit:s")]_vars

\* C16 witness: a loaded document was changed and saved, and the save is
\* what wrote its file.
ChangedDocumentSaved ==
    /\ lastOp = "cmd:save"
    /\ filepath # <<>>
    /\ disk[filepath] # InitDisk[filepath]
    /\ disk[filepath] = documentFile(blocks)

\* Two block sequences of the same length, with the same id, type and
\* content at every position.
SameBlocks(a, b) ==
    /\ Len(a) = Len(b)
    /\ \A k \in 1..Len(a) : /\ a[k].ID = b[k].ID
                            /\ a[k].Type = b[k].Type
                            /\ a[k].Content = b[k].Content

\* C18: when a save command writes a file, what loadDocument decodes from
\* the written file has the length, the order and every block's id, type
\* and content of the block sequence the command saved.
SavedFileLoadsBack ==
    [][\A i \in DOMAIN cmds :
          /\ lastOp' = "cmd:save" /\ nOps' = nOps
          /\ cmds[i].kind = "save" /\ cmds' = Remove(cmds, i)
          /\ disk' # disk
          => SameBlocks(Unmarshal(disk'[savePath(cmds[i])].data),
                        held(cmds[i]))]_vars

\* C18 witness: a document of several blocks, one with an escape character
\* in its content, was saved to a new file, and the file decodes to the
\* document.
SavedEscapedDocument ==
    /\ lastOp = "cmd:save"
    /\ \E path \in DOMAIN disk \ DOMAIN InitDisk :
          /\ disk[path].valid
          /\ Len(blocks) > 1
          /\ \E k \in 1..Len(blocks) : Contains(blocks[k].Content, <<"\\">>)
          /\ SameBlocks(Unmarshal(disk[path].data), blocks)

\* C19: a save or export command that runs after a later key was handled
\* is not affected by that key and does not touch the render cache: the
\* blocks it reads are the blocks as they were when its own key was
\* handled, and the cache is after it as it was before.
CommandsOwnTheirData ==
    [][\A i \in DOMAIN cmds :
          /\ lastOp' \in {"cmd:save", "cmd:save:error", "cmd:export",
                        "cmd:export:error"}
          /\ nOps' = nOps
          /\ cmds' = Remove(cmds, i)
          /\ nOps > cmds[i].issued
          => /\ held(cmds[i]) = cmds[i].doc
             /\ rcache' = rcache]_vars

\* C31: "d" in Browsing on a document of at least two blocks removes the
\* current block and no other: the blocks before it stay where they are,
\* the blocks after it move up by one, each with its id, type and content,
\* and the current index stays, unless the last block was removed, when it
\* becomes the index of the new last block.
DeleteRemovesCurrentBlock ==
    [][/\ Browsing /\ ~lsp.showCompletions /\ Len(blocks) >= 2
       /\ (Handled("edit:d") \/ Handled("edit:d:kept"))
       => /\ Len(blocks') = Len(blocks) - 1
          /\ \A k \in 1..Len(blocks') :
                LET old == IF k <= currentBlock THEN blocks[k]
                           ELSE blocks[k + 1]
                IN  /\ blocks'[k].ID = old.ID
                    /\ blocks'[k].Type = old.Type
                    /\ blocks'[k].Content = old.Content
          /\ currentBlock' = IF currentBlock = Len(blocks) - 1
                             THEN Len(blocks) - 2
                             ELSE currentBlock]_vars

\* C31 witness: a block was created after the blocks of a template and
\* deleted again, as the last block: the template's blocks are left and
\* the last of them is the current one.
LastBlockDeleted ==
    /\ lastOp = "edit:d"
    /\ \E t \in DOMAIN getDefaultTemplates :
          blocks = getDefaultTemplates[t].Content
    /\ currentBlock = Len(blocks) - 1
    /\ currentBlock > 0

\* C32: a key handled while the editor is focused, other than the "esc"
\* that commits, leaves the blocks (ids, types, contents, order), the
\* current index, the mode, the file path and the modified flag as they
\* are: it changes the editor's text and the completion state only.
EditingKeysLeaveDocument ==
    [][Editing /\ nOps' # nOps /\ lastOp' # "edit:esc"
       => /\ blocks' = blocks
          /\ currentBlock' = currentBlock
          /\ UNCHANGED <<mode, filepath, modified>>]_vars

\* C32 witness: text was typed into the focused editor, which now differs
\* from the content of the current block.
TypedTextNotYetCommitted ==
    /\ lastOp = "edit:input"
    /\ Editing
    /\ editor.value # Block(currentBlock).Content

\* C33: whenever the completion popover is shown, the mode is the edit mode
\* and the editor is focused.
PopoverOnlyWhileEditing ==
    lsp.showCompletions => mode = "modeEdit" /\ editor.focus

\* C33 witness: the popover is shown over the focused editor, whose text
\* ends in a macro prefix.
PopoverShownWhileEditing ==
    /\ lsp.showCompletions
    /\ Editing
    /\ lastOp = "edit:input"
    /\ lsp.completions # <<>>

\* C34: when a save command has written its file, the document is not
\* modified and its file path is the path that was written.
SaveIsRecorded ==
    [][\A i \in DOMAIN cmds :
          /\ cmds[i].kind = "save" /\ cmds' = Remove(cmds, i)
          /\ lastOp' = "cmd:save" /\ nOps' = nOps
          => /\ ~modified'
             /\ filepath' = savePath(cmds[i])]_vars

\* C35: whenever the mode is the edit mode, the editor is not focused and
\* the document has a block, the editor holds the content of the current
\* block.
BrowsingEditorHoldsCurrentBlock ==
    Browsing /\ blocks # <<>>
    => /\ currentBlock < Len(blocks)
       /\ editor.value = Block(currentBlock).Content

\* C35 witness: "j" has moved to a later block of other content, which
\* the editor holds.
EditorFollowedNavigation ==
    /\ lastOp = "edit:j"
    /\ Browsing
    /\ currentBlock > 0
    /\ Block(currentBlock).Content # Block(currentBlock - 1).Content
    /\ editor.value = Block(currentBlock).Content

-----------------------------------------------------------------------------
(* SpecCache: a cache of any capacity 1..MaxCapacity under Get and Put.    *)

CacheKeys == {<<"k">> \o Sprintf_d(i) : i \in 1..NumKeys}
CacheValues == {[Unicode |-> <<u>>, Errors |-> <<>>] : u \in {"x", "y"}}

\* The history of uses: a Put, or a Get that hits, makes key the most recent.
Used(key) == <<key>> \o SelectSeq(recency, LAMBDA k : k # key)

InitCache ==
    /\ initialModel
    /\ \E capacity \in 1..MaxCapacity : rcache = newLRUCache(capacity)

Get(key) ==
    /\ rcache' = LRUCacheGet(rcache, key)
    /\ recency' = IF LRUCacheHit(rcache, key) THEN Used(key) ELSE recency
    /\ lastOp' = IF LRUCacheHit(rcache, key) THEN "GetHit" ELSE "GetMiss"
    /\ UNCHANGED <<docVars, now, renders, lastRender, nFresh, nOps>>

Put(key, value) ==
    /\ rcache' = LRUCachePut(rcache, key, value)
    /\ recency' = Used(key)
    /\ lastOp' = IF LRUCacheHit(rcache, key) THEN "PutOld" ELSE "PutNew"
    /\ UNCHANGED <<docVars, now, renders, lastRender, nFresh, nOps>>

NextCache ==
    \/ \E key \in CacheKeys : Get(key)
    \/ \E key \in CacheKeys, value \in CacheValues : Put(key, value)

SpecCache == InitCache /\ [][NextCache]_vars

\* C5: a cache created with capacity c >= 1 never holds more than c entries,
\* in its recency list or in its key index.
CacheWithinCapacity ==
    /\ Len(rcache.order) <= rcache.capacity
    /\ Cardinality(DOMAIN rcache.cache) <= rcache.capacity

\* C5 witness: a Put of a new key found the cache full and left it full.
CacheFullAfterPut ==
    /\ lastOp = "PutNew"
    /\ Len(recency) > rcache.capacity
    /\ Len(rcache.order) = rcache.capacity

\* C6: the cached keys are exactly the min(c, distinct keys used) most
\* recently used keys, most recent at the front; so a Get hit promotes its
\* key and a Put of a new key at capacity evicts the least recently used.
CacheIsStrictLRU ==
    /\ OrderKeys(rcache)
         = SubSeq(recency, 1, Min(rcache.capacity, Len(recency)))
    /\ DOMAIN rcache.cache = {recency[i] :
           i \in 1..Min(rcache.capacity, Len(recency))}

\* C6 witness: after an eviction, a Get hit on a cache of two entries.
CachePromotedAfterEviction ==
    /\ lastOp = "GetHit"
    /\ rcache.capacity = 2
    /\ Len(recency) > rcache.capacity
    /\ Len(rcache.order) = rcache.capacity

\* C36: under any sequence of Get and Put the keys of the index are the
\* keys of the recency list, no key is twice in the list, every entry of
\* the index points at the element of the list that carries its key, and a
\* Get that misses changes nothing of the cache.
IndexAndListAgree ==
    /\ [](/\ DOMAIN rcache.cache = Range(OrderKeys(rcache))
          /\ \A i, j \in 1..Len(rcache.order) :
                OrderKeys(rcache)[i] = OrderKeys(rcache)[j] => i = j
          /\ \A key \in DOMAIN rcache.cache :
                /\ rcache.cache[key] \in Range(rcache.order)
                /\ rcache.items[rcache.cache[key]].key = key)
    /\ [][lastOp' = "GetMiss" => rcache' = rcache]_vars

\* C36 witness: a Get missed a key that a Put into the full cache had
\* evicted.
MissAfterEviction ==
    /\ lastOp = "GetMiss"
    /\ rcache.capacity >= 2
    /\ Len(rcache.order) = rcache.capacity
    /\ Len(recency) > rcache.capacity

-----------------------------------------------------------------------------
(* SpecRender: renderLaTeX called on contents that use overlapping macros, *)
(* among renders of other contents, while the clock advances.              *)

ClockStep == 30

RenderContents == {<<"\\", "i", "n", "t">>}

\* The i-th content of the b-th preview: one no earlier call has rendered.
FreshContent(b, i) == <<"f">> \o Sprintf_d(b) \o <<".">> \o Sprintf_d(i)

Remember(h, key, result) ==
    IF key \in DOMAIN h THEN h
    ELSE [k \in DOMAIN h \cup {key} |-> IF k = key THEN result ELSE h[k]]

InitRender ==
    /\ initialModel
    /\ rcache = newRenderModel

Render(content, order) ==
    LET r == renderLaTeX(rcache, content, order, now)
    IN  /\ rcache' = r.cache
        /\ renders' = Remember(renders, cacheKey(content, now), r.result)
        /\ lastRender' = [content |-> content,
                          key |-> cacheKey(content, now),
                          hit |-> LRUCacheHit(rcache, cacheKey(content, now)),
                          result |-> r.result]
        /\ lastOp' = "Render"
        /\ UNCHANGED <<docVars, now, recency, nFresh, nOps>>

\* The cache after the block loop of renderPreview has rendered blocks
\* i..n of a document of n blocks with never-seen contents.
RECURSIVE renderBlocks(_, _, _, _, _)
renderBlocks(c, b, i, n, t) ==
    IF c.capacity < 0 \/ i > n THEN c
    ELSE renderBlocks(
            renderLaTeX(c, FreshContent(b, i), SourceOrder(mathSymbols),
                        t).cache,
            b, i + 1, n, t)

\* A preview of n blocks of other contents; the macro loop's order cannot
\* matter to contents that hold no macro.
RenderOthers(n) ==
    /\ nFresh < MaxPreviews
    /\ rcache' = renderBlocks(rcache, nFresh + 1, 1, n, now)
    /\ nFresh' = nFresh + 1
    /\ lastOp' = "RenderOthers"
    /\ UNCHANGED <<docVars, now, recency, renders, lastRender, nOps>>

AdvanceClock ==
    /\ now < MaxNow
    /\ now' = now + ClockStep
    /\ lastOp' = "AdvanceClock"
    /\ UNCHANGED <<docVars, rcache, recency, renders, lastRender, nFresh, nOps>>

NextRender ==
    \/ \E content \in RenderContents, order \in MapOrders :
          Render(content, order)
    \/ \E n \in {1, RenderCacheCapacity} : RenderOthers(n)
    \/ AdvanceClock

SpecRender == InitRender /\ [][NextRender]_vars

\* C7: a render returns the Unicode text and the diagnostics that the first
\* render of the same content in the same time bucket returned, whether it
\* is served from the cache or recomputed.
RenderRepeatsWithinBucket ==
    lastRender # <<>> =>
        /\ lastRender.result.Unicode = renders[lastRender.key].Unicode
        /\ lastRender.result.Errors = renders[lastRender.key].Errors

\* C8: Render replaces a macro whose name has a shorter macro as a prefix by
\* its own glyph: "\int" renders as the integral sign, never as the glyph of
\* "\in" followed by "t".
LongerMacroRendersOwnGlyph ==
    lastRender # <<>> /\ lastRender.content = <<"\\", "i", "n", "t">>
        => lastRender.result.Unicode = <<"U+222B">>

-----------------------------------------------------------------------------
(* SpecSyntax: the commit of a focused editor that holds any text of at    *)
(* most MaxLine characters out of braces, the math delimiter, a letter, the *)
(* subscript mark and a line feed, in a new document's first block.        *)

SyntaxChars == {"{", "}", "a", "\n", "$", "_"}

Contents == UNION {[1..n -> SyntaxChars] : n \in 0..MaxLine}

\* A new document's first block with the editor focused, holding one of
\* the given texts.
editing(texts) ==
    /\ mode = "modeEdit"
    /\ blocks = <<[ID |-> <<"1">>, Type |-> blockText, Content |-> <<>>,
                   Language |-> <<>>]>>
    /\ backing = blocks
    /\ currentBlock = 0
    /\ editor \in {[value |-> v, focus |-> TRUE] : v \in texts}
    /\ filepath = <<>>
    /\ modified = TRUE
    /\ lsp = newLSPModel
    /\ menu = [selected |-> 0]
    /\ export = [selected |-> 0, focus |-> FALSE]
    /\ errorMsg = <<>>
    /\ disk = InitDisk
    /\ cmds = <<>>
    /\ now = 0
    /\ recency = <<>>
    /\ renders = <<>>
    /\ lastRender = <<>>
    /\ nFresh = 0
    /\ timer = newTimer
    /\ nOps = 0
    /\ lastOp = "init"
    /\ rcache = newRenderModel

InitSyntax == editing(Contents)

NextSyntax == updateEdit_esc

SpecSyntax == InitSyntax /\ [][NextSyntax]_vars

\* The braces of a line, matched from the left: the closing braces that no
\* opening brace before them is left for, and the number of opening braces
\* that no closing brace follows.
RECURSIVE ExtraClosing(_, _, _)
ExtraClosing(line, i, depth) ==
    IF i > Len(line) THEN {}
    ELSE IF line[i] = "{" THEN ExtraClosing(line, i + 1, depth + 1)
    ELSE IF line[i] = "}"
    THEN IF depth = 0 THEN {i} \cup ExtraClosing(line, i + 1, 0)
         ELSE ExtraClosing(line, i + 1, depth - 1)
    ELSE ExtraClosing(line, i + 1, depth)

RECURSIVE Unclosed(_, _, _)
Unclosed(line, i, depth) ==
    IF i > Len(line) THEN depth
    ELSE IF line[i] = "{" THEN Unclosed(line, i + 1, depth + 1)
    ELSE IF line[i] = "}" /\ depth > 0 THEN Unclosed(line, i + 1, depth - 1)
    ELSE Unclosed(line, i + 1, depth)

\* The brace diagnostics the commit reported for line k.
BraceDiagnosticsOf(k) ==
    SelectSeq(lsp.diagnostics,
              LAMBDA d : d.Line = k /\ d.Message \in {"Unmatched opening brace",
                                                      "Unmatched closing brace"})

\* C20: after a commit, for every line of the committed text: with opening
\* braces left unclosed and no extra closing brace, the line has exactly one
\* "unmatched opening brace" diagnostic, at column the line's length; with
\* one extra closing brace and nothing unclosed, exactly one "unmatched
\* closing brace" diagnostic, at that brace's column; with matched braces
\* only, no brace diagnostic.
BraceDiagnosticsPerLine ==
    lastOp = "edit:esc"
    => \A k \in 1..Len(SplitLines(editor.value)) :
          LET line == SplitLines(editor.value)[k]
              extra == ExtraClosing(line, 1, 0)
              open == Unclosed(line, 1, 0)
          IN  /\ extra = {} /\ open > 0
                 => BraceDiagnosticsOf(k) =
                      <<Diagnostic(k, Len(line), "Unmatched opening brace")>>
              /\ Cardinality(extra) = 1 /\ open = 0
                 => BraceDiagnosticsOf(k) =
                      <<Diagnostic(k, CHOOSE i \in extra : TRUE,
                                   "Unmatched closing brace")>>
              /\ extra = {} /\ open = 0 => BraceDiagnosticsOf(k) = <<>>

\* The math-delimiter diagnostics the commit reported for line k.
MathDiagnosticsOf(k) ==
    SelectSeq(lsp.diagnostics,
              LAMBDA d : d.Line = k /\ d.Message = "Unmatched math delimiter")

\* C21: after a commit, for every line of the committed text as it was
\* typed: an odd number of math delimiters on the line gives exactly one
\* "unmatched math delimiter" diagnostic for the line, placed at the last
\* delimiter of the typed line, and an even number gives none.
MathDelimiterPerLine ==
    lastOp = "edit:esc"
    => \A k \in 1..Len(SplitLines(editor.value)) :
          LET line == SplitLines(editor.value)[k]
          IN  MathDiagnosticsOf(k) =
                 IF Count(line, "$") % 2 = 1
                 THEN <<Diagnostic(k, LastDollar(line),
                                   "Unmatched math delimiter")>>
                 ELSE <<>>

\* C21 witness: a line of three math delimiters was committed and has its
\* one diagnostic.
ThreeDelimitersCommitted ==
    /\ lastOp = "edit:esc"
    /\ editor.value = <<"$", "$", "$">>
    /\ Len(MathDiagnosticsOf(1)) = 1

-----------------------------------------------------------------------------
(* SpecComplete: getCompletions called, at most MaxCalls times, on a       *)
(* content of at most MaxWords words: a lone escape character, the start   *)
(* of a registry name, an escaped word that starts none, a plain word.     *)

CompleteWords == {<<"\\">>, <<"\\", "a">>, <<"\\", "x">>, <<"b">>}

RECURSIVE CompleteContents(_)
CompleteContents(n) ==
    IF n = 0 THEN {<<>>}
    ELSE CompleteContents(n - 1)
         \cup {IF c = <<>> THEN w ELSE c \o <<" ">> \o w :
                  c \in CompleteContents(n - 1), w \in CompleteWords}

InitComplete == editing(CompleteContents(MaxWords))

Complete ==
    /\ nOps < MaxCalls
    /\ nOps' = nOps + 1
    /\ lastOp' = "Complete"
    /\ \E completions \in getCompletions(editor.value) :
          lsp' = [lsp EXCEPT !.completions = completions]
    /\ UNCHANGED <<mode, blocks, backing, currentBlock, editor, filepath,
                   modified, docFrame, rcache, renderFrame>>

NextComplete == Complete

SpecComplete == InitComplete /\ [][NextComplete]_vars

\* The registry entries the last word of a content asks for.
AskedFor(content) ==
    LET words == Fields(content)
        token == words[Len(words)]
    IN  IF words # <<>> /\ HasPrefix(token, <<"\\">>) /\ Len(token) > 1
        THEN {symbols[i] : i \in {j \in 1..Len(symbols) :
                                     HasPrefix(symbols[j].Label, token)}}
        ELSE {}

-----------------------------------------------------------------------------
(* SpecFilename: Enter in the focused input of the export dialog, the      *)
(* input empty, over a document of at most MaxBlocks blocks: headings with *)
(* a title, with the placeholder title, with a title of no letter or       *)
(* digit, with no text; a text block; loaded from a file or from none.     *)

FilenameBlocks ==
    {[ID |-> <<"1">>, Type |-> blockHeading, Language |-> <<>>, Content |-> c] :
        c \in {<<"#", " ", "Q", "u", "a", "r", "t", "e", "r", "l", "y", " ", "R", "e", "p", "o", "r", "t">>,
               <<"#", " ", "D", "o", "c", "u", "m", "e", "n", "t", " ", "T", "i", "t", "l", "e">>,
               <<" ", " ", "#", "#", " ", "A", "-", "b", " ", "1", " ", " ">>,
               <<"#", "#", " ", "!">>,
               <<>>}}
    \cup {[ID |-> <<"1">>, Type |-> blockText, Language |-> <<>>,
           Content |-> <<"#", " ", "N", "o", "t", "e", "s">>]}

FilenameDocuments == UNION {[1..n -> FilenameBlocks] : n \in 0..MaxBlocks}

FilenamePaths == {<<>>, <<"d", ".", "o", "a", "t", "h">>, <<"n", "/", "q", ".", "o", "a", "t", "h">>}

InitFilename ==
    /\ mode = "modeExport"
    /\ blocks \in FilenameDocuments
    /\ backing = blocks
    /\ currentBlock = 0
    /\ editor = [value |-> IF blocks = <<>> THEN <<>> ELSE blocks[1].Content,
                 focus |-> FALSE]
    /\ filepath \in FilenamePaths
    /\ modified = FALSE
    /\ lsp = newLSPModel
    /\ menu = [selected |-> 0]
    /\ export = [selected |-> 0, focus |-> TRUE]
    /\ errorMsg = <<>>
    /\ disk = InitDisk
    /\ cmds = <<>>
    /\ now = 0
    /\ recency = <<>>
    /\ renders = <<>>
    /\ lastRender = <<>>
    /\ nFresh = 0
    /\ timer = newTimer
    /\ nOps = 0
    /\ lastOp = "init"
    /\ rcache = newRenderModel

NextFilename == updateExport_export

SpecFilename == InitFilename /\ [][NextFilename]_vars

\* The text of a heading without its markers and the spaces around it, and
\* the name made of it: lower case, a dash for a space, nothing for a
\* character that is not a letter, a digit or a dash, no dash at either end.
TitleOf(content) ==
    LET isMargin(c) == c \in {" ", "\t", "\n"}
        from == CHOOSE i \in 1..(Len(content) + 1) :
                   /\ \A j \in 1..(i - 1) : isMargin(content[j])
                   /\ i <= Len(content) => ~isMargin(content[i])
        marked == SubSeq(content, from, Len(content))
        text == CHOOSE i \in 1..(Len(marked) + 1) :
                   /\ \A j \in 1..(i - 1) : marked[j] = "#"
                   /\ i <= Len(marked) => marked[i] # "#"
    IN  TrimSpace(SubSeq(marked, text, Len(marked)))

NameOf(title) ==
    LET lower(c) == IF \E k \in 1..Len(upperCase) : upperCase[k] = c
                    THEN lowerCase[CHOOSE k \in 1..Len(upperCase) :
                                      upperCase[k] = c]
                    ELSE IF c = " " THEN "-" ELSE c
        kept == SelectSeq([i \in 1..Len(title) |-> lower(title[i])],
                          LAMBDA c : c \in Range(lowerCase) \cup Range(digits)
                                           \cup {"-"})
        inner == {i \in 1..Len(kept) : kept[i] # "-"}
    IN  IF inner = {} THEN <<>>
        ELSE SubSeq(kept, CHOOSE i \in inner : \A j \in inner : i <= j,
                    CHOOSE i \in inner : \A j \in inner : j <= i)

\* The headings of a document that name it.
Naming(bs) ==
    {k \in 1..Len(bs) : /\ bs[k].Type = blockHeading
                        /\ TitleOf(bs[k].Content) # placeholderTitle
                        /\ NameOf(TitleOf(bs[k].Content)) # <<>>}

\* C24: the file name an export is started with, the input left empty, is
\* the name made of the first heading, in document order, that has a name
\* and is not the placeholder title; without such a heading it is the base
\* name of the document's file without ".oath"; without a file it is
\* "document".
SmartFilenameOfFirstHeading ==
    lastOp = "export:export"
    => cmds[Len(cmds)].filename =
         IF Naming(blocks) # {}
         THEN NameOf(TitleOf(blocks[CHOOSE k \in Naming(blocks) :
                                       \A j \in Naming(blocks) : k <= j].Content))
         ELSE IF filepath = <<"d", ".", "o", "a", "t", "h">> THEN <<"d">>
         ELSE IF filepath = <<"n", "/", "q", ".", "o", "a", "t", "h">> THEN <<"q">>
         ELSE <<"d", "o", "c", "u", "m", "e", "n", "t">>

\* C24 witness: an export was started on a document loaded from a file
\* whose headings are the placeholder title and then "# Quarterly Report",
\* under the name "quarterly-report".
QuarterlyReportNamed ==
    /\ lastOp = "export:export"
    /\ filepath # <<>>
    /\ Len(blocks) = 2
    /\ blocks[1].Content = <<"#", " ", "D", "o", "c", "u", "m", "e", "n", "t", " ", "T", "i", "t", "l", "e">>
    /\ blocks[2].Content = <<"#", " ", "Q", "u", "a", "r", "t", "e", "r", "l", "y", " ", "R", "e", "p", "o", "r", "t">>
    /\ cmds[1].filename = <<"q", "u", "a", "r", "t", "e", "r", "l", "y", "-", "r", "e", "p", "o", "r", "t">>

-----------------------------------------------------------------------------
(* SpecExport: Enter in the focused input of the export dialog, the input  *)
(* empty, and the command it starts, for every format, over documents of   *)
(* headings, math and text.                                                *)

\* What renderPreview shows for a heading: the style and the title.
renderPreview_heading(content) ==
    LET level == Count(TrimSpace(content), "#")
        title == TrimSpace(TrimLeft(content, {"#", " "}))
    IN  [style |-> IF level = 1 THEN "h1Style"
                   ELSE IF level = 2 THEN "h2Style"
                   ELSE IF level = 3 THEN "h3Style"
                   ELSE "headingStyle",
         text |-> title]

ExportBlocks ==
    {[ID |-> <<>>, Type |-> blockHeading, Language |-> <<>>, Content |-> c] :
        c \in {<<"#", " ", "T", "i", "t", "l", "e">>, <<"#", " ", "C", "#">>}}
    \cup {[ID |-> <<>>, Type |-> blockMath, Language |-> <<>>,
           Content |-> <<"$", "x", "^", "2", "$">>]}
    \cup {[ID |-> <<>>, Type |-> blockText, Language |-> <<>>, Content |-> c] :
            c \in {<<"p", "l", "a", "i", "n">>, <<"*", "*", "b", "*", "*", " ", "*", "i", "*">>, <<"x", " ", "*", " ", "y">>}}

TitleMathText ==
    <<[ID |-> <<>>, Type |-> blockHeading, Language |-> <<>>,
       Content |-> <<"#", " ", "T", "i", "t", "l", "e">>],
      [ID |-> <<>>, Type |-> blockMath, Language |-> <<>>,
       Content |-> <<"$", "x", "^", "2", "$">>],
      [ID |-> <<>>, Type |-> blockText, Language |-> <<>>,
       Content |-> <<"p", "l", "a", "i", "n">>]>>

\* The documents, their blocks numbered as a saved document's are.
ExportDocuments ==
    {[k \in 1..Len(bs) |-> [bs[k] EXCEPT !.ID = Sprintf_d(k)]] :
        bs \in {TitleMathText}
               \cup UNION {[1..n -> ExportBlocks] : n \in 1..MaxBlocks}}

InitExport ==
    /\ mode = "modeExport"
    /\ blocks \in ExportDocuments
    /\ backing = blocks
    /\ currentBlock = 0
    /\ editor = [value |-> blocks[1].Content, focus |-> FALSE]
    /\ filepath = <<>>
    /\ modified = FALSE
    /\ lsp = newLSPModel
    /\ menu = [selected |-> 0]
    /\ export \in [selected : 0..(Len(formats) - 1), focus : {TRUE}]
    /\ errorMsg = <<>>
    /\ disk = InitDisk
    /\ cmds = <<>>
    /\ now = 0
    /\ recency = <<>>
    /\ renders = <<>>
    /\ lastRender = <<>>
    /\ nFresh = 0
    /\ timer = newTimer
    /\ nOps = 0
    /\ lastOp = "init"
    /\ rcache = newRenderModel

NextExport ==
    \/ updateExport_export
    \/ \E i \in DOMAIN cmds : exportDocument(i)

SpecExport == InitExport /\ [][NextExport]_vars

\* An export command has run, with or without an error.
Exported == lastOp \in {"cmd:export", "cmd:export:error"}

\* The file an export of the document writes, the input left empty.
ExportPath(suffix) == Join(getSmartFilename(blocks, filepath) \o suffix)

\* The number of "#" a heading content starts with.
LeadingMarkers(content) ==
    Len(content) - Len(TrimLeft(content, {"#"}))

\* C25: after an export, for every heading of the document, the preview
\* styles it, the markup file sections it and the hypertext file tags it at
\* the level that is the number of "#" its content starts with.
HeadingLevelIsLeadingMarkers ==
    Exported =>
        \A k \in DOMAIN blocks :
            blocks[k].Type = blockHeading =>
                LET n == LeadingMarkers(blocks[k].Content)
                    tex == ExportPath(texSuffix)
                    html == ExportPath(<<".", "h", "t", "m", "l">>)
                IN  /\ renderPreview_heading(blocks[k].Content).style
                         = <<"h1Style", "h2Style", "h3Style">>[n]
                    /\ tex \in DOMAIN disk
                         => HasPrefix(disk[tex].text[k],
                                      <<<<"\\", "s", "e", "c", "t", "i", "o", "n", "*", "{">>, <<"\\", "s", "u", "b", "s", "e", "c", "t", "i", "o", "n", "*", "{">>,
                                        <<"\\", "s", "u", "b", "s", "u", "b", "s", "e", "c", "t", "i", "o", "n", "*", "{">>>>[n])
                    /\ html \in DOMAIN disk
                         => HasPrefix(disk[html].text[k],
                                      <<"<", "h">> \o Sprintf_d(n) \o <<">">>)

\* C26: when the command of a PDF export returns without an error, the
\* directory holds the built document and the markup file it was built
\* from, and none of the by-products (.aux, .log, .fls, .fdb_latexmk,
\* .synctex.gz, .out, .toc) of that name.
BuildKeepsDocumentAndMarkup ==
    [][\A i \in DOMAIN cmds :
          /\ cmds[i].kind = "export" /\ cmds[i].format = exportPDF
          /\ cmds' = Remove(cmds, i)
          /\ lastOp' = "cmd:export" /\ nOps' = nOps
          => /\ cmds[i].filename \o <<".", "p", "d", "f">> \in DOMAIN disk'
             /\ cmds[i].filename \o <<".", "t", "e", "x">> \in DOMAIN disk'
             /\ \A suffix \in {<<".", "a", "u", "x">>, <<".", "l", "o", "g">>, <<".", "f", "l", "s">>, <<".", "f", "d", "b", "_", "l", "a", "t", "e", "x", "m", "k">>,
                               <<".", "s", "y", "n", "c", "t", "e", "x", ".", "g", "z">>, <<".", "o", "u", "t">>, <<".", "t", "o", "c">>} :
                   cmds[i].filename \o suffix \notin DOMAIN disk']_vars

\* An export command returned an error after the markup file was written:
\* pdflatex was not found or failed.
ToolchainFailed ==
    /\ lastOp' = "cmd:export:error" /\ nOps' = nOps
    /\ \E i \in DOMAIN cmds :
          /\ cmds' = Remove(cmds, i)
          /\ cmds[i].format = exportPDF
          /\ disk' # disk

\* What View draws from.
Shown == <<mode, blocks, currentBlock, editor, filepath, modified, lsp, menu,
           export, errorMsg>>

\* C27: when the command of an export returns an error, a markup file it
\* wrote is still in the directory, and something View draws from has
\* changed, so that the user is told.
ExportFailureIsShown ==
    [][/\ ToolchainFailed
          => \E i \in DOMAIN cmds :
                /\ cmds' = Remove(cmds, i)
                /\ cmds[i].filename \o <<".", "t", "e", "x">> \in DOMAIN disk'
       /\ lastOp' = "cmd:export:error" /\ nOps' = nOps => Shown' # Shown]_vars

\* The text of an exported file, and the number of times a text holds
\* another.
TextOf(path) == Concat(disk[path].text)

Occurrences(s, sub) == (Len(s) - Len(ReplaceAll(s, sub, <<>>))) \div Len(sub)

\* C29: the plain-Unicode export of the document of the heading "# Title",
\* the math "$x^2$" and the text "plain" holds the superscript two and
\* holds no "$", no "#" and no "^".
UnicodeExportHasNoMarkup ==
    /\ Exported
    /\ export.selected = 2
    /\ ExportPath(<<".", "t", "x", "t">>) \in DOMAIN disk
    /\ [k \in DOMAIN blocks |-> blocks[k].Content] = <<<<"#", " ", "T", "i", "t", "l", "e">>, <<"$", "x", "^", "2", "$">>, <<"p", "l", "a", "i", "n">>>>
    => /\ Contains(TextOf(ExportPath(<<".", "t", "x", "t">>)), <<"U+00B2">>)
       /\ \A c \in {"$", "#", "^"} : Count(TextOf(ExportPath(<<".", "t", "x", "t">>)), c) = 0

\* C30: in the hypertext export, what is written for a text block holds as
\* many "</strong>" as "<strong>" and as many "</em>" as "<em>", and a text
\* whose only marker is one "*" is written as it is.
HypertextMarkersPaired ==
    Exported /\ ExportPath(<<".", "h", "t", "m", "l">>) \in DOMAIN disk
    => \A k \in DOMAIN blocks :
          blocks[k].Type = blockText =>
             LET written == disk[ExportPath(<<".", "h", "t", "m", "l">>)].text[k]
             IN  /\ Occurrences(written, <<"<", "s", "t", "r", "o", "n", "g", ">">>)
                      = Occurrences(written, <<"<", "/", "s", "t", "r", "o", "n", "g", ">">>)
                 /\ Occurrences(written, <<"<", "e", "m", ">">>) = Occurrences(written, <<"<", "/", "e", "m", ">">>)
                 /\ blocks[k].Content = <<"x", " ", "*", " ", "y">> => written = <<"<", "p", ">", "x", " ", "*", " ", "y", "<", "/", "p", ">", "\n">>

-----------------------------------------------------------------------------
(* SpecFormat: renders of contents that are one formatting command.        *)

FormatContents == {<<"\\", "t", "e", "x", "t", "b", "f", "{", "t", "}">>, <<"\\", "t", "e", "x", "t", "i", "t", "{", "t", "}">>, <<"\\", "e", "m", "p", "h", "{", "t", "}">>, <<"\\", "t", "e", "x", "t", "b", "f", "{", "a", "{", "b", "}", "}">>}

InitFormat == InitRender

NextFormat ==
    \E content \in FormatContents :
        \E order \in OrdersFor(content) : Render(content, order)

SpecFormat == InitFormat /\ [][NextFormat]_vars

\* C28: a render of "\textbf{t}" returns "**t**", one of "\textit{t}" or
\* "\emph{t}" returns "*t*", and one of "\textbf{a{b}}" closes the bold
\* text at the last brace, which matches the command's: the closing marker
\* stands where the command's closing brace stood and that brace is gone.
FormattingClosesAtMatchingBrace ==
    lastRender # <<>> =>
        /\ lastRender.content = <<"\\", "t", "e", "x", "t", "b", "f", "{", "t", "}">>
              => lastRender.result.Unicode = <<"*", "*", "t", "*", "*">>
        /\ lastRender.content \in {<<"\\", "t", "e", "x", "t", "i", "t", "{", "t", "}">>, <<"\\", "e", "m", "p", "h", "{", "t", "}">>}
              => lastRender.result.Unicode = <<"*", "t", "*">>
        /\ lastRender.content = <<"\\", "t", "e", "x", "t", "b", "f", "{", "a", "{", "b", "}", "}">>
              => lastRender.result.Unicode = <<"*", "*", "a", "{", "b", "}", "*", "*">>

-----------------------------------------------------------------------------
(* SpecTimer: the countdown.  updateTimer under the keys it has a case for *)
(* and under the keys that only edit the duration, the tickers, the        *)
(* goroutines of waitForTick, and the tickMsg case of Update.  Time is in  *)
(* seconds.                                                                *)

MaxDuration == 2    \* the longest duration typed, in seconds
MaxTickers == 3     \* tickers made in a run of SpecTimer

timerFrame == <<mode, blocks, backing, currentBlock, editor, filepath, modified,
                lsp, docFrame, rcache, clockFrame>>

\* The key reaches the switch of updateTimer.
timing == mode = "modeTimer" /\ ~timer.notes

\* A key without a case (a digit, a unit, a deletion) edits the duration;
\* d is what the text parses to afterwards.
updateTimer_input(d) ==
    /\ handles("timer:input")
    /\ timing
    /\ timer.focus
    /\ timer' = [timer EXCEPT !.value = d]
    /\ UNCHANGED timerFrame

updateTimer_enter ==
    /\ handles("timer:enter")
    /\ timing
    /\ IF timer.focus /\ timer.value > 0
       THEN /\ timer.made < MaxTickers
            /\ LET started == NewTicker([timer EXCEPT !.duration = timer.value,
                                                      !.remaining = timer.value,
                                                      !.paused = FALSE])
               IN  timer' = waitForTick(started, started.ticker)
       ELSE UNCHANGED timer
    /\ UNCHANGED timerFrame

updateTimer_p ==
    /\ handles("timer:p")
    /\ timing
    /\ timer' = inputUpdate(IF timer.ticker # 0
                            THEN [Stop(timer) EXCEPT !.paused = TRUE, !.ticker = 0]
                            ELSE timer)
    /\ UNCHANGED timerFrame

updateTimer_r ==
    /\ handles("timer:r")
    /\ timing
    /\ IF timer.paused /\ timer.remaining > 0
       THEN /\ timer.made < MaxTickers
            /\ LET resumed == NewTicker([timer EXCEPT !.paused = FALSE])
               IN  timer' = inputUpdate(waitForTick(resumed, resumed.ticker))
       ELSE timer' = inputUpdate(timer)
    /\ UNCHANGED timerFrame

updateTimer_w ==
    /\ handles("timer:w")
    /\ timing
    /\ LET stopped == IF timer.ticker # 0
                      THEN [Stop(timer) EXCEPT !.ticker = 0]
                      ELSE timer
       IN  timer' = inputUpdate([stopped EXCEPT !.focus = TRUE])
    /\ UNCHANGED timerFrame

\* "n" gives the notes the focus; the focused input takes the letter too,
\* and "n" is a letter of a unit ("1ns").
updateTimer_n ==
    /\ handles("timer:n")
    /\ timing
    /\ \E d \in {0, 1} :
           timer' = [timer EXCEPT !.notes = TRUE,
                                  !.value = IF timer.focus THEN d ELSE @]
    /\ UNCHANGED timerFrame

\* With the notes focused Esc blurs them (every other key goes to the notes).
updateTimer_esc ==
    /\ handles("timer:esc")
    /\ mode = "modeTimer"
    /\ timer.notes
    /\ timer' = [timer EXCEPT !.notes = FALSE]
    /\ UNCHANGED timerFrame

\* Ticker t sends a tick: its channel holds one tick, a further one is dropped.
tick(t) ==
    /\ runs("tick")
    /\ t \in timer.live
    /\ t \notin timer.buffered
    /\ timer' = [timer EXCEPT !.buffered = @ \cup {t}]
    /\ UNCHANGED timerFrame

\* A goroutine of waitForTick receives from the channel of ticker t and
\* returns the tickMsg.
receive(t) ==
    /\ runs("receive")
    /\ t \in timer.buffered
    /\ timer.waits[t] > 0
    /\ timer' = [timer EXCEPT !.buffered = @ \ {t}, !.waits[t] = @ - 1,
                              !.msgs = @ + 1]
    /\ UNCHANGED timerFrame

\* case tickMsg of an Update that tests neither model.paused nor model.ticker.
Update_tickMsgWhilePaused ==
    /\ runs("tickMsg")
    /\ timer.msgs > 0
    /\ LET tm == [timer EXCEPT !.msgs = @ - 1]
       IN  timer' =
               IF mode = "modeTimer" /\ tm.remaining > 0
               THEN IF tm.remaining - 1 <= 0
                    THEN [Stop(tm) EXCEPT !.ticker = 0, !.remaining = 0]
                    ELSE IF tm.ticker # 0
                         THEN waitForTick([tm EXCEPT !.remaining = @ - 1], tm.ticker)
                         ELSE [tm EXCEPT !.remaining = @ - 1]
               ELSE tm
    /\ UNCHANGED timerFrame

\* case tickMsg of Update.
Update_tickMsg ==
    /\ runs("tickMsg")
    /\ timer.msgs > 0
    /\ LET tm == [timer EXCEPT !.msgs = @ - 1]
       IN  timer' =
               IF mode = "modeTimer" /\ ~tm.paused /\ tm.ticker # 0
               THEN IF tm.remaining - 1 <= 0
                    THEN [Stop(tm) EXCEPT !.ticker = 0, !.remaining = 0]
                    ELSE waitForTick([tm EXCEPT !.remaining = @ - 1], tm.ticker)
               ELSE tm
    /\ UNCHANGED timerFrame

NextTimer ==
    \/ updateBrowser_space
    \/ updateMenu_t
    \/ updateMenu_enter
    \/ updateEdit_t
    \/ updateTimer_q
    \/ \E d \in 0..MaxDuration : updateTimer_input(d)
    \/ updateTimer_enter
    \/ updateTimer_p
    \/ updateTimer_r
    \/ updateTimer_w
    \/ updateTimer_n
    \/ updateTimer_esc
    \/ \E t \in 1..timer.made : tick(t)
    \/ \E t \in 1..timer.made : receive(t)
    \/ Update_tickMsg

SpecTimer == Init /\ [][NextTimer]_vars

\* The timer was started, is not paused and has time left.
Running == timer.ticker # 0 /\ ~timer.paused /\ timer.remaining > 0

\* The goroutines waiting for a tick of any ticker.
Waits == LET RECURSIVE sum(_)
             sum(t) == IF t = 0 THEN 0 ELSE timer.waits[t] + sum(t - 1)
         IN  sum(timer.made)

\* The ticks on their way: waits that will be served, and messages for Update.
Outstanding == Waits + timer.msgs

\* C37: a started, unpaused timer with time left always has a tick on its
\* way, a goroutine waiting on its ticker's channel or a tickMsg not yet
\* handled, whatever the mode is and was (so that with every tick delivered
\* it counts down to zero).
RunningTimerAwaitsTick ==
    Running => timer.waits[timer.ticker] > 0 \/ timer.msgs > 0

\* C38: at most one tick is on its way at any time: the goroutines waiting
\* on a ticker's channel and the tick messages not yet handled are one at
\* most together, so the remaining time loses one second per period.
AtMostOneTickAwaited == Outstanding <= 1

\* C39: while the timer is paused before and after a step the remaining time
\* is the same, and a tickMsg handled while it is paused changes nothing of
\* the timer but the message taken; the remaining time is never negative;
\* the step that brings it to zero stops the ticker and clears model.ticker.
PausedTimerKeepsRemaining ==
    /\ [](timer.remaining >= 0)
    /\ [][/\ timer.paused /\ timer'.paused => timer'.remaining = timer.remaining
          /\ timer.paused /\ lastOp' = "tickMsg" =>
                 timer' = [timer EXCEPT !.msgs = @ - 1]
          /\ timer.remaining > 0 /\ timer'.remaining = 0 =>
                 /\ lastOp' = "tickMsg"
                 /\ timer'.ticker = 0
                 /\ timer.ticker \notin timer'.live]_vars

\* A tick received before "p" was handled after it, with time left.
TickHandledWhilePaused ==
    /\ lastOp = "tickMsg"
    /\ timer.paused
    /\ timer.remaining > 0
    /\ timer.live = {}

====
